---- MODULE Spec2Model ----
(***************************************************************************)
(* A model of the regridding worker functions of cf-python                 *)
(* (src/cf/regrid/utils.py).  Every behaviour is one call of one worker    *)
(* function (or of the per-section chain of calls) on inputs drawn from    *)
(* small sets; `op` names the function that is running and `pc` its        *)
(* position.                                                               *)
(*                                                                         *)
(* Real numbers are held in fixed point: the real x is the integer         *)
(* x * CellWidth, so that cell areas, overlaps and area fractions of the   *)
(* one-dimensional grids used here are all integers.                       *)
(***************************************************************************)
EXTENDS Integers, Sequences, FiniteSets, TLC

VARIABLES
    op,             \* the worker function being called
    pc,             \* "start", an intermediate label, "done" or "raised"
    raised,         \* the exception that ended the call, or "none"
    method,         \* the `method` argument
    use_src_mask,   \* the `use_src_mask` argument
    manager,        \* TRUE once the process-wide ESMF manager is initialised
    handles,        \* the native ESMF handles that are alive
    acquired,       \* the handles the running call itself obtained
    bounds,         \* the `bounds` dictionary: coordinate key -> cell bounds
    cyclic,         \* the `cyclic` argument / local variable (None, True, False)
    period,         \* the `period` argument (None or a number)
    coords_1D,      \* whether the coordinates are 1-d
    contiguous,     \* what contiguous_bounds returned (None before the call)
    grid,           \* the builder's `cyclic` and `bounds` once set (else None)
    src_data,       \* the section's data, one value per source cell
    src_mask,       \* the section's mask (TRUE: missing), per source cell
    fill_value,     \* f.fill_value(default="netCDF") of the source field f
    geometry,       \* where the destination cells lie on the source axis
    fracfield,      \* the `fracfield` argument
    regrid,         \* the ESMF.Regrid operator: weights and area fractions
    srcfield,       \* srcfield.data, per source cell (None before it is filled)
    dstfield,       \* dstfield.data, per destination cell
    regridded_data, \* what regrid_get_regridded_data returned
    mass,           \* the entry _compute_field_mass[k]: <<srcmass, dstmass>>
    grid0,          \* the source field's grid: kind, cyclicity, coordinates
    grid1,          \* the source grid of the regrid operator
    check_coordinates, \* the `check_coordinates` argument
    compatible,     \* the outcome of the compatibility check (else None)
    operator,       \* the RegridOperator passed as `dst` (else None)
    operator_method, \* what regrid_get_operator_method returned (else None)
    src,            \* the source field's metadata
    f,              \* the regridded field's metadata (a copy of src's),
                    \* updated in place
    dst,            \* the destination: a Field's metadata or a dictionary
    src_axis_keys,  \* the keys of the regridding axes in the source field
    dst_axis_keys,  \* the keys of the regridding axes in the destination
    dst_axis_sizes, \* the sizes of the destination axes
    Cartesian,      \* whether regridding is Cartesian (else spherical)
    name,           \* the `name` argument: 'source' or 'destination'
    coordinates,    \* the field or dictionary that coordinates are taken from
    latlon,         \* what the coordinate extraction returned (else None)
    message,        \* the message of the exception raised by the extraction
    stash2standard_name, \* the STASH-to-standard-name table in force
    loads,          \* the arguments of the loads of the table so far
    ppfield,        \* the field last read from a PP file (else None)
    args,           \* the arguments of a call of an array function
    result          \* what the array function returned (else None)

solver_vars == <<manager, handles, acquired>>
grid_vars == <<bounds, cyclic, period, coords_1D, contiguous, grid>>

section_args ==
    <<src_data, src_mask, fill_value, geometry, fracfield, regrid>>
section_vars == <<section_args, srcfield, dstfield, regridded_data, mass>>

compat_vars == <<grid0, grid1, check_coordinates, compatible>>

operator_vars == <<operator, operator_method>>

\* The variables of the functions that work on field metadata.
propagate_args ==
    <<src, dst, src_axis_keys, dst_axis_keys, dst_axis_sizes, Cartesian>>

\* The variables of the coordinate extraction.
latlon_vars == <<name, coordinates, latlon, message>>

\* The variables of the STASH-to-standard-name table.
um_vars == <<stash2standard_name, loads, ppfield>>

\* The variables of a call of an array function.
call_vars == <<args, result>>

meta_vars ==
    <<operator_vars, f, propagate_args, latlon_vars, um_vars, call_vars>>

vars == <<op, pc, raised, method, use_src_mask, solver_vars, grid_vars,
          section_vars, compat_vars, meta_vars>>

\* Python's None, and a value that is not None.
None == <<>>
Some(x) == <<x>>

\* The grid-builder variables of a call that does not use them.
NoGrid ==
    /\ bounds = <<>>
    /\ cyclic = None
    /\ period = None
    /\ coords_1D = TRUE
    /\ contiguous = None
    /\ grid = None

\* The section variables of a call that does not use them.
NoSection ==
    /\ src_data = None
    /\ src_mask = None
    /\ fill_value = None
    /\ geometry = None
    /\ fracfield = FALSE
    /\ regrid = None
    /\ srcfield = None
    /\ dstfield = None
    /\ regridded_data = None
    /\ mass = None

\* The compatibility variables of a call that does not use them.
NoCompat ==
    /\ grid0 = None
    /\ grid1 = None
    /\ check_coordinates = FALSE
    /\ compatible = None

\* The metadata-propagation variables of a call that does not use them.
NoPropagate ==
    /\ src = None
    /\ f = None
    /\ dst = None
    /\ src_axis_keys = <<>>
    /\ dst_axis_keys = <<>>
    /\ dst_axis_sizes = <<>>
    /\ Cartesian = FALSE

\* The coordinate-extraction variables of a call that does not use them.
NoLatLon ==
    /\ name = None
    /\ coordinates = None
    /\ latlon = None
    /\ message = ""

\* The table variables of a call that does not use them.
NoUM ==
    /\ stash2standard_name = None
    /\ loads = <<>>
    /\ ppfield = None

\* The array-function variables of a call that does not use them.
NoCall ==
    /\ args = None
    /\ result = None

NoMeta ==
    /\ operator = None
    /\ operator_method = None
    /\ NoPropagate
    /\ NoLatLon
    /\ NoUM
    /\ NoCall

(***************************************************************************)
(* The method catalogue and the two eager configuration checks.            *)
(***************************************************************************)

\* regridding_methods() with 'bilinear' left out.
regridding_methods_no_alias ==
    {"linear", "conservative", "conservative_1st", "conservative_2nd",
     "nearest_dtos", "nearest_stod", "patch"}

regridding_methods ==
    {"linear", "bilinear", "conservative", "conservative_1st",
     "conservative_2nd", "nearest_dtos", "nearest_stod", "patch"}

regridding_is_conservative(m) ==
    m \in {"conservative", "conservative_1st", "conservative_2nd"}

\* Strings that are not regridding methods, as a caller might pass them.
OtherStrings == {"", "Linear", "nearest", "cubic", "conservative_3rd"}

\* The strings passed as `method`.
MethodStrings ==
    {"linear", "bilinear", "conservative", "conservative_1st",
     "conservative_2nd", "nearest_dtos", "nearest_stod", "patch"}
    \cup OtherStrings

\* The exception regrid_check_method ends with ("none": it returns).
regrid_check_method(m) ==
    IF m \notin regridding_methods THEN "ValueError" ELSE "none"

\* regrid_check_use_src_mask with `or` written for `and`.
regrid_check_use_src_mask_or(u, m) ==
    IF (~u) \/ ~(m = "nearest_stod") THEN "ValueError" ELSE "none"

\* The exception regrid_check_use_src_mask ends with.
regrid_check_use_src_mask(u, m) ==
    IF (~u) /\ ~(m = "nearest_stod") THEN "ValueError" ELSE "none"

Exit(exc) == IF exc = "none" THEN "done" ELSE "raised"

InitCheck ==
    /\ op \in {"regrid_check_method", "regrid_check_use_src_mask"}
    /\ pc = "start"
    /\ raised = "none"
    /\ method \in MethodStrings
    /\ use_src_mask \in BOOLEAN
    /\ manager = FALSE
    /\ handles = {}
    /\ acquired = {}
    /\ NoGrid
    /\ NoSection
    /\ NoCompat
    /\ NoMeta

CallCheckMethod ==
    /\ op = "regrid_check_method"
    /\ pc = "start"
    /\ raised' = regrid_check_method(method)
    /\ pc' = Exit(raised')
    /\ UNCHANGED <<op, method, use_src_mask, solver_vars, grid_vars,
                   section_vars,
                   compat_vars, meta_vars>>

CallCheckUseSrcMask ==
    /\ op = "regrid_check_use_src_mask"
    /\ pc = "start"
    /\ raised' = regrid_check_use_src_mask(use_src_mask, method)
    /\ pc' = Exit(raised')
    /\ UNCHANGED <<op, method, use_src_mask, solver_vars, grid_vars,
                   section_vars,
                   compat_vars, meta_vars>>

(***************************************************************************)
(* The functions that talk to the ESMF solver.  A solver call may fail:    *)
(* `fail` names the call that raises, "none" when every call succeeds.     *)
(***************************************************************************)

\* regrid_method_map of cf/regrid/regridoperator.py: the methods it has keys
\* for (the method catalogue).
regrid_method_map ==
    {"linear", "bilinear", "conservative", "conservative_1st",
     "conservative_2nd", "nearest_dtos", "nearest_stod", "patch"}

\* The handles destroy_Regrid(regrid, src, dst) releases.
destroy_Regrid(src_, dst_) ==
    (IF src_ THEN {"src_grid", "src_field", "src_frac_field"} ELSE {})
    \cup (IF dst_ THEN {"dst_grid", "dst_field", "dst_frac_field"} ELSE {})
    \cup {"regrid"}

\* create_weights: [manager, raised, handles, acquired] at its exit, from the
\* handles alive at its entry.
create_weights(m, h, fail) ==
    IF m \notin regrid_method_map
    THEN [manager |-> TRUE, raised |-> "ValueError", handles |-> h,
          acquired |-> {}]
    ELSE IF fail = "src_field"
    THEN [manager |-> TRUE, raised |-> "ESMFError", handles |-> h,
          acquired |-> {}]
    ELSE IF fail = "dst_field"
    THEN [manager |-> TRUE, raised |-> "ESMFError",
          handles |-> h \cup {"src_field"}, acquired |-> {"src_field"}]
    ELSE IF fail = "Regrid"
    THEN [manager |-> TRUE, raised |-> "ESMFError",
          handles |-> h \cup {"src_field", "dst_field"},
          acquired |-> {"src_field", "dst_field"}]
    ELSE [manager |-> TRUE, raised |-> "none",
          handles |-> (h \cup {"src_field", "dst_field", "regrid"})
                          \ destroy_Regrid(TRUE, TRUE),
          acquired |-> {"src_field", "dst_field", "regrid"}]

\* create_Regrid: [raised, handles] at its exit; the new regrid operator is
\* returned to the caller.
create_Regrid(m, h, fail) ==
    IF m \notin regrid_method_map
    THEN [raised |-> "ValueError", handles |-> h]
    ELSE IF fail = "Regrid"
    THEN [raised |-> "ESMFError", handles |-> h]
    ELSE [raised |-> "none", handles |-> h \cup {"regrid"}]

InitSolver ==
    /\ \/ /\ op = "create_weights"
          /\ handles = {"src_grid", "dst_grid"}
       \/ /\ op = "create_Regrid"
          /\ handles = {"src_grid", "dst_grid", "src_field", "dst_field",
                        "src_frac_field", "dst_frac_field"}
    /\ pc = "start"
    /\ raised = "none"
    /\ method \in MethodStrings
    /\ use_src_mask \in BOOLEAN
    /\ manager = FALSE
    /\ acquired = {}
    /\ NoGrid
    /\ NoSection
    /\ NoCompat
    /\ NoMeta

CallCreateWeights ==
    /\ op = "create_weights"
    /\ pc = "start"
    /\ \E fail \in {"none", "src_field", "dst_field", "Regrid"} :
          LET r == create_weights(method, handles, fail) IN
          /\ manager' = r.manager
          /\ raised' = r.raised
          /\ handles' = r.handles
          /\ acquired' = r.acquired
    /\ pc' = Exit(raised')
    /\ UNCHANGED <<op, method, use_src_mask, grid_vars, section_vars,
                   compat_vars, meta_vars>>

CallCreateRegrid ==
    /\ op = "create_Regrid"
    /\ pc = "start"
    /\ \E fail \in {"none", "Regrid"} :
          LET r == create_Regrid(method, handles, fail) IN
          /\ raised' = r.raised
          /\ handles' = r.handles
    /\ pc' = Exit(raised')
    /\ UNCHANGED <<op, method, use_src_mask, manager, acquired, grid_vars,
                   section_vars,
                   compat_vars, meta_vars>>

(***************************************************************************)
(* Cell bounds: contiguity and the cyclicity of the longitude axis.        *)
(* A 1-d bounds array of n cells is a sequence of n pairs <<lower, upper>>.*)
(***************************************************************************)

MaxCells == 2
MaxK == 2
Period == 360

\* Bound values: multiples of half a period.
BoundValues == {k * (Period \div 2) : k \in 0..MaxK}

Cells == BoundValues \X BoundValues

BoundsArrays == UNION {[1..n -> Cells] : n \in 1..MaxCells}

\* Latitude bounds: one cell, two contiguous cells, two cells with a gap.
LatBoundsArrays ==
    {<< <<0, 90>> >>, << <<0, 45>>, <<45, 90>> >>, << <<0, 30>>, <<45, 90>> >>}

\* The bounds dictionaries the coordinate extraction can hand over: empty,
\* longitude only, or longitude and latitude.
BoundsDicts ==
    {<<>>}
    \cup {[key \in {"lon"} |-> b] : b \in BoundsArrays}
    \cup {[key \in {"lon", "lat"} |-> IF key = "lon" THEN b ELSE l] :
              b \in BoundsArrays, l \in LatBoundsArrays}

abs(x) == IF x < 0 THEN -x ELSE x

\* diff = b[1:, 0] - b[:-1, 1] with no reduction modulo the period.
contiguous_1d_no_modulo(b, cyc, per) ==
    \A k \in 1..(Len(b) - 1) : b[k + 1][1] - b[k][2] = 0

\* The 1-d branch of contiguous_bounds for one bounds array: no element of
\* diff = b[1:, 0] - b[:-1, 1] (taken modulo the period when cyclic) is
\* non-zero.
contiguous_1d(b, cyc, per) ==
    \A k \in 1..(Len(b) - 1) :
        LET diff == b[k + 1][1] - b[k][2] IN
        (IF cyc /\ per # None THEN diff % per[1] ELSE diff) = 0

contiguous_bounds(bnds, cyc, per) ==
    IF DOMAIN bnds = {}
    THEN TRUE
    ELSE \A key \in DOMAIN bnds : contiguous_1d(bnds[key], cyc, per)

\* The ndim == 2 branch of contiguous_bounds for one bounds array.
contiguous_2d(b, cyc, per) ==
    LET n == Len(b)
        m == Len(b[1])
        nonzero(d) == (IF cyc /\ per # None THEN d % per[1] ELSE d) # 0
    IN  /\ ~\E i \in 1..n, j \in 1..(m - 1) :
                nonzero(b[i][j][2] - b[i][j + 1][1])
        /\ ~\E i \in 1..n, j \in 1..(m - 1) :
                nonzero(b[i][j][3] - b[i][j + 1][4])
        /\ ~\E i \in 1..(n - 1), j \in 1..m :
                nonzero(b[i][j][4] - b[i + 1][j][1])
        /\ ~\E i \in 1..(n - 1), j \in 1..m :
                nonzero(b[i][j][3] - b[i + 1][j][2])

\* contiguous_bounds for a dictionary of bounds of 2-d cells.
contiguous_bounds_2d(bnds, cyc, per) ==
    IF DOMAIN bnds = {}
    THEN TRUE
    ELSE \A key \in DOMAIN bnds : contiguous_2d(bnds[key], cyc, per)

\* Corner meshes of (n + 1) x (m + 1) distinct values, the bounds of the
\* n x m cells cut from them, and the same bounds with one vertex moved.
Mesh(n, m, base) ==
    [i \in 1..(n + 1) |->
        [j \in 1..(m + 1) |-> base + (i - 1) * (m + 1) + (j - 1)]]

QuadBounds(mesh) ==
    [i \in 1..(Len(mesh) - 1) |->
        [j \in 1..(Len(mesh[1]) - 1) |->
            <<mesh[i][j], mesh[i][j + 1], mesh[i + 1][j + 1],
              mesh[i + 1][j]>>]]

BoundsArrays2D ==
    UNION {
        LET b == QuadBounds(Mesh(n, m, 0)) IN
        {b} \cup {[b EXCEPT ![i][j][v] = @ + d] :
                     i \in 1..n, j \in 1..m, v \in 1..4, d \in {1, Period}} :
        n \in 1..MaxCells, m \in 1..MaxCells}

\* Latitude bounds of the cells of the shape of the longitude bounds b.
LatBounds2D(b) == QuadBounds(Mesh(Len(b), Len(b[1]), -4))

\* The bounds dictionaries of 2-d longitude and latitude coordinates.
BoundsDicts2D ==
    {[key \in {"lon", "lat"} |-> IF key = "lon" THEN b ELSE LatBounds2D(b)] :
        b \in BoundsArrays2D}

\* The cyclicity test without the absolute value.
lon_bounds_span_period_signed(lon_bounds) ==
    lon_bounds[Len(lon_bounds)][2] - lon_bounds[1][1] = Period

\* abs(lon_bounds.item(-1) - lon_bounds.item(0)) == period
lon_bounds_span_period(lon_bounds) ==
    abs(lon_bounds[Len(lon_bounds)][2] - lon_bounds[1][1]) = Period

\* create_spherical_ESMF_grid, "Set cyclicity of longitude axis":
\* the values of `cyclic` and `bounds` after it.
spherical_cyclic(bnds, cyc, c1D) ==
    IF cyc = None
    THEN IF DOMAIN bnds # {} /\ c1D
         THEN [cyclic |-> Some(lon_bounds_span_period(bnds["lon"])),
               bounds |-> IF "lat" \notin DOMAIN bnds THEN <<>> ELSE bnds]
         ELSE [cyclic |-> Some(FALSE), bounds |-> bnds]
    ELSE [cyclic |-> cyc, bounds |-> bnds]

\* create_spherical_ESMF_grid, "Parse bounds for the Grid": the exception it
\* ends with.  With bounds left, the error for bounds that are not
\* contiguous formats its message from `name` and `method`, and the corner
\* arrays of contiguous 1-d bounds take their dtype from `x_bounds` and
\* `y_bounds`: none of those names is bound in the function.
spherical_parse_bounds(bnds, cyc, c1D) ==
    IF DOMAIN bnds = {} THEN "none" ELSE "NameError"

InitContiguous ==
    /\ op = "contiguous_bounds"
    /\ pc = "start"
    /\ raised = "none"
    /\ method = "linear"
    /\ use_src_mask = TRUE
    /\ manager = FALSE
    /\ handles = {}
    /\ acquired = {}
    /\ bounds \in BoundsDicts
    /\ \/ cyclic = Some(FALSE) /\ period = None
       \/ cyclic \in {Some(FALSE), Some(TRUE)} /\ period = Some(Period)
    /\ coords_1D = TRUE
    /\ contiguous = None
    /\ grid = None
    /\ NoSection
    /\ NoCompat
    /\ NoMeta

CallContiguousBounds ==
    /\ op = "contiguous_bounds"
    /\ pc = "start"
    /\ contiguous' = Some(contiguous_bounds(bounds, cyclic[1], period))
    /\ pc' = "done"
    /\ UNCHANGED <<op, raised, method, use_src_mask, solver_vars,
                   bounds, cyclic, period, coords_1D, grid, section_vars,
                   compat_vars, meta_vars>>

\* The arguments of create_spherical_ESMF_grid: longitude-only bounds are
\* fetched only to find the cyclicity of 1-d coordinates.
InitSpherical ==
    /\ op = "create_spherical_ESMF_grid"
    /\ pc = "start"
    /\ raised = "none"
    /\ method = "linear"
    /\ use_src_mask = TRUE
    /\ manager = TRUE
    /\ handles = {}
    /\ acquired = {}
    /\ cyclic \in {None, Some(FALSE), Some(TRUE)}
    /\ \/ /\ coords_1D = TRUE
          /\ bounds \in BoundsDicts
          /\ (DOMAIN bounds = {"lon"}) => cyclic = None
       \/ /\ coords_1D = FALSE
          /\ \/ bounds = <<>>
             \/ bounds \in BoundsDicts2D
    /\ period = Some(Period)
    /\ contiguous = None
    /\ grid = None
    /\ NoSection
    /\ NoCompat
    /\ NoMeta

CallCreateSphericalGrid ==
    /\ op = "create_spherical_ESMF_grid"
    /\ pc = "start"
    /\ LET c == spherical_cyclic(bounds, cyclic, coords_1D) IN
          /\ grid' = Some(c)
          /\ contiguous' = IF DOMAIN c.bounds = {}
                           THEN None
                           ELSE IF coords_1D
                           THEN Some(contiguous_bounds(c.bounds, c.cyclic[1],
                                                       Some(Period)))
                           ELSE Some(contiguous_bounds_2d(c.bounds,
                                                          c.cyclic[1],
                                                          Some(Period)))
          /\ raised' = spherical_parse_bounds(c.bounds, c.cyclic[1], coords_1D)
    /\ pc' = Exit(raised')
    /\ handles' = IF raised' = "none" THEN handles \cup {"grid"} ELSE handles
    /\ UNCHANGED <<op, method, use_src_mask, manager, acquired, bounds,
                   cyclic, period, coords_1D, section_vars,
                   compat_vars, meta_vars>>

(***************************************************************************)
(* Regridding one section of data.  The source grid is a row of NSrc cells *)
(* of width CellWidth, cell i covering [(i-1)*CellWidth, i*CellWidth]; the *)
(* destination grid is a row of NDst cells of width geometry.width whose   *)
(* first cell starts at geometry.shift.  Cell areas are cell widths.       *)
(***************************************************************************)

NSrc == 2
CellWidth == 2
MaxValue == 2

NDst == NSrc
Src == 1..NSrc
Dst == 1..NDst

\* The data values, and the values a field's fill value may have.
Values == 0..MaxValue

\* The fixed-point form of the real (here whole) number x, and of 1.0.
Fix(x) == x * CellWidth
One == Fix(1)

Geometries ==
    [shift : 0..CellWidth,
     width : {w \in 1..CellWidth : CellWidth % w = 0}]

Min2(a, b) == IF a < b THEN a ELSE b
Max2(a, b) == IF a > b THEN a ELSE b

src_area(i) == CellWidth
dst_area(g, j) == g.width

\* The length that source cell i and destination cell j share.
overlap(g, i, j) ==
    Max2(0, Min2(i * CellWidth, g.shift + j * g.width)
            - Max2((i - 1) * CellWidth, g.shift + (j - 1) * g.width))

\* Twice the distance between the centres of source cell i and destination
\* cell j.
distance(g, i, j) ==
    abs((2 * i - 1) * CellWidth - (2 * g.shift + (2 * j - 1) * g.width))

RECURSIVE Sum(_, _)
\* The sum of a[1], ..., a[n].
Sum(a, n) == IF n = 0 THEN 0 ELSE a[n] + Sum(a, n - 1)

\* The solver's first-order conservative weights (fixed point):
\* weight(j, i) = overlap_area(src_i, dst_j) / dst_area(j) over the source
\* cells the source grid's mask leaves in; 0 stands for no entry.
conservative_weights(g, grid_mask) ==
    [j \in Dst |-> [i \in Src |->
        IF grid_mask[i]
        THEN 0
        ELSE (overlap(g, i, j) * One) \div dst_area(g, j)]]

\* The source cells nearest to destination cell j among those left in.
nearest_sources(g, grid_mask, j) ==
    {i \in Src : /\ ~grid_mask[i]
                 /\ \A k \in Src : grid_mask[k] \/ distance(g, i, j) <= distance(g, k, j)}

\* The solver's nearest source-to-destination weights: each destination
\* cell takes one nearest source cell (donor) with weight 1, a destination
\* cell with no source cell left in has no entry (donor 0).
nearest_stod_weights(g, grid_mask) ==
    LET donors ==
            {d \in [Dst -> 0..NSrc] :
                \A j \in Dst :
                    IF nearest_sources(g, grid_mask, j) = {}
                    THEN d[j] = 0
                    ELSE d[j] \in nearest_sources(g, grid_mask, j)}
    IN  {[j \in Dst |-> [i \in Src |-> IF i = d[j] THEN One ELSE 0]] :
            d \in donors}

\* The area fractions that go with weights w: for each source cell the
\* share of its area that lies in destination cells, for each destination
\* cell the share of its area that source cells cover.
src_frac(g, grid_mask) ==
    [i \in Src |->
        IF grid_mask[i]
        THEN 0
        ELSE (Sum([j \in Dst |-> overlap(g, i, j)], NDst) * One) \div src_area(i)]

dst_frac(w) == [j \in Dst |-> Sum(w[j], NSrc)]

\* The ESMF.Regrid operators the solver may return for a method, a geometry
\* and the mask of the source grid.
Regrids(m, g, grid_mask) ==
    IF regridding_is_conservative(m)
    THEN {[weights |-> conservative_weights(g, grid_mask),
           src_frac |-> src_frac(g, grid_mask),
           dst_frac |-> dst_frac(conservative_weights(g, grid_mask))]}
    ELSE {[weights |-> w,
           src_frac |-> [i \in Src |-> 0],
           dst_frac |-> [j \in Dst |-> 0]] :
              w \in nearest_stod_weights(g, grid_mask)}

\* The mask item of the source grid: the section's mask, or none if the
\* source mask is not to be used.
source_grid_mask(mask, usm) == IF usm THEN mask ELSE [i \in Src |-> FALSE]

\* regrid_fill_fields: the data of the two ESMF fields.
regrid_fill_fields(data, mask, fill) ==
    [srcfield |-> [i \in Src |-> IF mask[i] THEN Fix(fill) ELSE Fix(data[i])],
     dstfield |-> [j \in Dst |-> Fix(fill)]]

\* run_Regrid: dstfield.data after regrid(srcfield, dstfield,
\* zero_region=ESMF.Region.SELECT): only the destination cells that have
\* weights are overwritten.
run_Regrid(r, sf, df) ==
    [j \in Dst |->
        IF \A i \in Src : r.weights[j][i] = 0
        THEN df[j]
        ELSE Sum([i \in Src |-> r.weights[j][i] * sf[i]], NSrc) \div One]

\* The real number num / den.
Ratio(num, den) == <<num, den>>

\* regrid_get_regridded_data without `frac[frac == 0.0] = 1.0`.
regrid_get_regridded_data_keep_zero(m, ff, df, dfrac, fill) ==
    IF regridding_is_conservative(m)
    THEN IF ff
         THEN [data |-> [j \in Dst |-> Ratio(dfrac[j], One)],
               mask |-> [j \in Dst |-> FALSE]]
         ELSE [data |-> [j \in Dst |-> Ratio(df[j], dfrac[j])],
               mask |-> [j \in Dst |-> df[j] = Fix(fill)]]
    ELSE [data |-> [j \in Dst |-> Ratio(df[j], One)],
          mask |-> [j \in Dst |-> df[j] = Fix(fill)]]

\* regrid_get_regridded_data: the regridded values and their mask.
regrid_get_regridded_data(m, ff, df, dfrac, fill) ==
    IF regridding_is_conservative(m)
    THEN IF ff
         THEN [data |-> [j \in Dst |-> Ratio(dfrac[j], One)],
               mask |-> [j \in Dst |-> FALSE]]
         ELSE LET frac == [j \in Dst |-> IF dfrac[j] = 0 THEN One ELSE dfrac[j]]
              IN  [data |-> [j \in Dst |-> Ratio(df[j], frac[j])],
                   mask |-> [j \in Dst |-> df[j] = Fix(fill)]]
    ELSE [data |-> [j \in Dst |-> Ratio(df[j], One)],
          mask |-> [j \in Dst |-> df[j] = Fix(fill)]]

\* regrid_compute_mass_grid: the sum of area * value (* fraction) over the
\* cells whose value is not `uninitval`.
regrid_compute_mass_grid(value, area, n, dofrac, frac, uninitval) ==
    Sum([c \in 1..n |->
            IF value[c] = Fix(uninitval)
            THEN 0
            ELSE IF dofrac
            THEN (area[c] * value[c] * frac[c]) \div One
            ELSE area[c] * value[c]], n)

\* regrid_compute_field_mass: the exception it ends with, the mass record
\* and the area fields left alive, when solver call `fail` raises.
regrid_compute_field_mass(g, r, sf, df, fill, fail) ==
    LET srcmass == regrid_compute_mass_grid(
                       sf, [i \in Src |-> src_area(i)], NSrc, TRUE,
                       r.src_frac, fill)
        dstmass == regrid_compute_mass_grid(
                       df, [j \in Dst |-> dst_area(g, j)], NDst, FALSE,
                       r.dst_frac, fill)
    IN  IF fail = "srcareafield"
        THEN [raised |-> "ESMFError", mass |-> None, alive |-> {},
              acquired |-> {}]
        ELSE IF fail = "srcareafield.get_area"
        THEN [raised |-> "ESMFError", mass |-> None,
              alive |-> {"srcareafield"}, acquired |-> {"srcareafield"}]
        ELSE IF fail = "dstareafield"
        THEN [raised |-> "ESMFError", mass |-> None,
              alive |-> {"srcareafield"}, acquired |-> {"srcareafield"}]
        ELSE IF fail = "dstareafield.get_area"
        THEN [raised |-> "ESMFError", mass |-> None,
              alive |-> {"srcareafield", "dstareafield"},
              acquired |-> {"srcareafield", "dstareafield"}]
        ELSE [raised |-> "none", mass |-> <<srcmass, dstmass>>, alive |-> {},
              acquired |-> {"srcareafield", "dstareafield"}]

\* A section about to be regridded: the grids, the fields and the regrid
\* operator exist.  The source mask can only be left out for 'nearest_stod'.
InitSection ==
    /\ op = "regrid_section"
    /\ pc = "start"
    /\ raised = "none"
    /\ method \in {"conservative_1st", "nearest_stod"}
    /\ use_src_mask \in BOOLEAN
    /\ regrid_check_use_src_mask(use_src_mask, method) = "none"
    /\ manager = TRUE
    /\ handles = {"src_grid", "dst_grid", "src_field", "dst_field",
                  "src_frac_field", "dst_frac_field", "regrid"}
    /\ acquired = {}
    /\ NoGrid
    /\ src_data \in [Src -> Values]
    /\ src_mask \in [Src -> BOOLEAN]
    /\ fill_value \in Values
    /\ geometry \in Geometries
    /\ fracfield \in BOOLEAN
    /\ fracfield => regridding_is_conservative(method)
    /\ regrid \in Regrids(method, geometry,
                          source_grid_mask(src_mask, use_src_mask))
    /\ srcfield = None
    /\ dstfield = None
    /\ regridded_data = None
    /\ mass = None
    /\ NoCompat
    /\ NoMeta

CallFillFields ==
    /\ op = "regrid_section"
    /\ pc = "start"
    /\ LET r == regrid_fill_fields(src_data, src_mask, fill_value) IN
          /\ srcfield' = r.srcfield
          /\ dstfield' = r.dstfield
    /\ pc' = "filled"
    /\ UNCHANGED <<op, raised, method, use_src_mask, solver_vars, grid_vars,
                   section_args, regridded_data, mass,
                   compat_vars, meta_vars>>

CallRunRegrid ==
    /\ op = "regrid_section"
    /\ pc = "filled"
    /\ dstfield' = run_Regrid(regrid, srcfield, dstfield)
    /\ pc' = "regridded"
    /\ UNCHANGED <<op, raised, method, use_src_mask, solver_vars, grid_vars,
                   section_args, srcfield, regridded_data, mass,
                   compat_vars, meta_vars>>

\* The field mass is computed on request, for conservative methods.
CallComputeFieldMass ==
    /\ op = "regrid_section"
    /\ pc = "regridded"
    /\ regridding_is_conservative(method)
    /\ \E fail \in {"none", "srcareafield", "srcareafield.get_area",
                    "dstareafield", "dstareafield.get_area"} :
          LET r == regrid_compute_field_mass(geometry, regrid, srcfield,
                                             dstfield, fill_value, fail)
          IN  /\ raised' = r.raised
              /\ mass' = r.mass
              /\ handles' = handles \cup r.alive
              /\ acquired' = r.acquired
    /\ pc' = IF raised' = "none" THEN "mass_computed" ELSE "raised"
    /\ UNCHANGED <<op, method, use_src_mask, manager, grid_vars,
                   section_args, srcfield, dstfield, regridded_data,
                   compat_vars, meta_vars>>

CallGetRegriddedData ==
    /\ op = "regrid_section"
    /\ pc \in {"regridded", "mass_computed"}
    /\ regridded_data' =
           regrid_get_regridded_data(method, fracfield, dstfield,
                                     regrid.dst_frac, fill_value)
    /\ pc' = "done"
    /\ UNCHANGED <<op, raised, method, use_src_mask, solver_vars, grid_vars,
                   section_args, srcfield, dstfield, mass,
                   compat_vars, meta_vars>>

(***************************************************************************)
(* The source grid of a reused regrid operator against the grid of a new   *)
(* source field.  The coordinates of a grid are, for each stagger          *)
(* location, one array per dimension; an array is a sequence of values.    *)
(***************************************************************************)

MaxCoord == 1

\* The sizes a grid dimension has here.
Sizes == {1, 2}

Arrays == UNION {[1..n -> 0..MaxCoord] : n \in Sizes}

StaggerCoords == UNION {[1..d -> Arrays] : d \in {1, 2}}

\* grid.coords with the centres only, or with a second stagger location.
Coords == {<<c>> : c \in StaggerCoords} \cup {<<c, c>> : c \in StaggerCoords}

\* The coordinates an operator's source grid has here: centres only, all 0.
OperatorCoords ==
    {<<c>> : c \in {sc \in StaggerCoords :
                       \A d \in DOMAIN sc : \A k \in DOMAIN sc[d] : sc[d][k] = 0}}

\* numpy.array_equal(a, b)
array_equal(a, b) == Len(a) = Len(b) /\ \A k \in 1..Len(a) : a[k] = b[k]

\* grids_have_same_coords comparing the lengths only.
grids_have_same_coords_lengths(coords0, coords1) ==
    /\ Len(coords0) = Len(coords1)
    /\ \A s \in 1..Len(coords0) : Len(coords0[s]) = Len(coords1[s])

\* grids_have_same_coords(grid0, grid1), on the grids' coords.
grids_have_same_coords(coords0, coords1) ==
    IF Len(coords0) # Len(coords1)
    THEN FALSE
    ELSE \A s \in 1..Len(coords0) :
             IF Len(coords0[s]) # Len(coords1[s])
             THEN FALSE
             ELSE \A d \in 1..Len(coords0[s]) :
                      array_equal(coords0[s][d], coords1[s][d])

\* The shape of a grid: the size of each dimension.
grid_shape(coords) == [d \in 1..Len(coords[1]) |-> Len(coords[1][d])]

\* The compatibility check made when an operator is reused: the cheap
\* tests, and the coordinates check if check_coordinates is True.
is_compatible(g0, g1, check) ==
    /\ g0.kind = g1.kind
    /\ g0.cyclic = g1.cyclic
    /\ grid_shape(g0.coords) = grid_shape(g1.coords)
    /\ check => grids_have_same_coords(g0.coords, g1.coords)

\* check_source_grid(f, src_grid, operator, src_cyclic): the exception it
\* ends with and the handles it has obtained by then.  `srcgrid` is not a
\* name of the function or of the module, so each `srcgrid.destroy()`
\* raises NameError.
check_source_grid(src_cyclic, operator_src_cyclic, coords0, coords1) ==
    IF src_cyclic # operator_src_cyclic
    THEN [raised |-> "ValueError", acquired |-> {}]
    ELSE IF ~grids_have_same_coords(coords0, coords1)
    THEN [raised |-> "NameError", acquired |-> {"src_grid"}]
    ELSE [raised |-> "NameError", acquired |-> {"src_grid"}]

Kinds == {"spherical", "Cartesian"}

InitCompat ==
    /\ \/ /\ op = "is_compatible"
          /\ grid0 \in [kind : Kinds, cyclic : BOOLEAN, coords : Coords]
          /\ grid1 \in [kind : Kinds, cyclic : BOOLEAN, coords : OperatorCoords]
          /\ check_coordinates \in BOOLEAN
       \/ /\ op = "check_source_grid"
          /\ grid0 \in [kind : {"spherical"}, cyclic : BOOLEAN, coords : Coords]
          /\ grid1 \in [kind : {"spherical"}, cyclic : BOOLEAN,
                        coords : OperatorCoords]
          /\ check_coordinates = TRUE
    /\ pc = "start"
    /\ raised = "none"
    /\ method = "linear"
    /\ use_src_mask = TRUE
    /\ manager = TRUE
    /\ handles = {"regrid", "src_field", "dst_field"}
    /\ acquired = {}
    /\ compatible = None
    /\ NoGrid
    /\ NoSection
    /\ NoMeta

CallIsCompatible ==
    /\ op = "is_compatible"
    /\ pc = "start"
    /\ compatible' = Some(is_compatible(grid0, grid1, check_coordinates))
    /\ pc' = "done"
    /\ UNCHANGED <<op, raised, method, use_src_mask, solver_vars, grid_vars,
                   section_vars, grid0, grid1, check_coordinates, meta_vars>>

CallCheckSourceGrid ==
    /\ op = "check_source_grid"
    /\ pc = "start"
    /\ LET r == check_source_grid(grid0.cyclic, grid1.cyclic, grid0.coords,
                                  grid1.coords)
       IN  /\ raised' = r.raised
           /\ handles' = handles \cup r.acquired
           /\ acquired' = r.acquired
    /\ pc' = Exit(raised')
    /\ UNCHANGED <<op, method, use_src_mask, manager, grid_vars,
                   section_vars, grid0, grid1, check_coordinates, compatible,
                   meta_vars>>

(***************************************************************************)
(* A RegridOperator given as the destination.                              *)
(***************************************************************************)

\* regrid_method_map.get(m) of cf/regrid/regridoperator.py: the solver's
\* method that the method string m stands for, None for any other string.
regrid_method_map_get(m) ==
    IF m \in {"linear", "bilinear"} THEN Some("BILINEAR")
    ELSE IF m \in {"conservative", "conservative_1st"} THEN Some("CONSERVE")
    ELSE IF m = "conservative_2nd" THEN Some("CONSERVE_2ND")
    ELSE IF m = "nearest_dtos" THEN Some("NEAREST_DTOS")
    ELSE IF m = "nearest_stod" THEN Some("NEAREST_STOD")
    ELSE IF m = "patch" THEN Some("PATCH")
    ELSE None

\* RegridOperator.check_method(method): whether method is equivalent to the
\* operator's method.
check_method(o, m) == regrid_method_map_get(m) = regrid_method_map_get(o.method)

\* regrid_get_operator_method with the method argument ignored.
regrid_get_operator_method_ignore(o, m) ==
    [raised |-> "none", method |-> Some(o.method)]

\* regrid_get_operator_method(operator, method): the exception it ends with
\* and the method it returns.  `m` is None or Some(string).
regrid_get_operator_method(o, m) ==
    IF m = None
    THEN [raised |-> "none", method |-> Some(o.method)]
    ELSE IF ~check_method(o, m[1])
    THEN [raised |-> "ValueError", method |-> None]
    ELSE [raised |-> "none", method |-> m]

\* The methods an operator is created with here.
OperatorMethods == {"linear", "conservative", "nearest_stod"}

Operators == [method : OperatorMethods, dst : {None}]

InitOperatorMethod ==
    /\ op = "regrid_get_operator_method"
    /\ pc = "start"
    /\ raised = "none"
    /\ method \in {None} \cup {Some(m) : m \in MethodStrings}
    /\ use_src_mask = TRUE
    /\ manager = TRUE
    /\ handles = {"regrid", "src_field", "dst_field"}
    /\ acquired = {}
    /\ operator \in Operators
    /\ operator_method = None
    /\ NoPropagate
    /\ NoLatLon
    /\ NoUM
    /\ NoCall
    /\ NoGrid
    /\ NoSection
    /\ NoCompat

CallGetOperatorMethod ==
    /\ op = "regrid_get_operator_method"
    /\ pc = "start"
    /\ LET r == regrid_get_operator_method(operator, method) IN
          /\ raised' = r.raised
          /\ operator_method' = r.method
    /\ pc' = Exit(raised')
    /\ UNCHANGED <<op, method, use_src_mask, solver_vars, grid_vars,
                   section_vars, compat_vars, operator, f, propagate_args,
                   latlon_vars, um_vars, call_vars>>

(***************************************************************************)
(* Field metadata.  A field is a record of its metadata constructs (key -> *)
(* type, data axes and data), its coordinate references (key -> the keys   *)
(* of the coordinates and domain ancillaries it names), its domain axis    *)
(* sizes, the destination coordinates inserted into it (under new keys)    *)
(* and the destination coordinate references copied into it.  The          *)
(* data of a construct is [of |-> the construct it was made from,          *)
(* grid |-> the grid it is defined on].                                    *)
(***************************************************************************)

Range(seq) == {seq[i] : i \in DOMAIN seq}

\* The function with the pairs <<key, value>> of the set `pairs`.
FromPairs(pairs) ==
    [k \in {q[1] : q \in pairs} |-> (CHOOSE q \in pairs : q[1] = k)[2]]

\* The function fn without the keys in `keys`.
Without(fn, keys) == [k \in (DOMAIN fn) \ keys |-> fn[k]]

\* A construct of type t with data axes `axes`, made from the construct
\* `key` of a field on grid g.
Construct(t, axes, key, g) ==
    [type |-> t, axes |-> axes, data |-> [of |-> key, grid |-> g]]

\* The pair for construct `key`, none if `axes` is None.
Optional(t, axes, key, g) ==
    IF axes = None THEN {} ELSE {<<key, Construct(t, axes[1], key, g)>>}

\* A source field with dimension coordinates on its axes x, y and z
\* (all of size 2) and at most one construct of each other type.
SrcField(aux, cm, fa, da, ref) ==
    [constructs |->
         FromPairs(
             {<<"dimX", Construct("dimension_coordinate", <<"x">>, "dimX", "src")>>,
              <<"dimY", Construct("dimension_coordinate", <<"y">>, "dimY", "src")>>,
              <<"dimZ", Construct("dimension_coordinate", <<"z">>, "dimZ", "src")>>}
             \cup Optional("auxiliary_coordinate", aux, "aux0", "src")
             \cup Optional("cell_measure", cm, "cm0", "src")
             \cup Optional("field_ancillary", fa, "fa0", "src")
             \cup Optional("domain_ancillary", da, "da0", "src")),
     refs |-> IF ref = None THEN <<>> ELSE FromPairs({<<"ref0", ref[1]>>}),
     sizes |-> [a \in {"x", "y", "z"} |-> 2],
     inserted |-> {},
     copied |-> {}]

\* The coordinate references a source field may have, given the axes of
\* its auxiliary coordinate and of its domain ancillary (or None).
SrcRefs(aux, da) ==
    {None} \cup
    {Some([coordinates |-> c, domain_ancillaries |-> d]) :
        c \in {{}, {"dimZ"}, {"dimX", "dimY"}, {"dimY", "dimZ"}}
              \cup (IF aux = None THEN {} ELSE {{"aux0"}, {"aux0", "dimZ"}}),
        d \in {{}} \cup (IF da = None THEN {} ELSE {{"da0"}})}

\* A destination field with dimension coordinates on its axes dx, dy and
\* dt, an optional 2-d auxiliary coordinate and an optional coordinate
\* reference.
DstField(aux, ref) ==
    [constructs |->
         FromPairs(
             {<<"dimX", Construct("dimension_coordinate", <<"dx">>, "dimX", "dst")>>,
              <<"dimY", Construct("dimension_coordinate", <<"dy">>, "dimY", "dst")>>,
              <<"dimT", Construct("dimension_coordinate", <<"dt">>, "dimT", "dst")>>}
             \cup Optional("auxiliary_coordinate", aux, "aux0", "dst")),
     refs |-> IF ref = None THEN <<>> ELSE FromPairs({<<"ref0", ref[1]>>}),
     sizes |-> [a \in {"dx", "dy", "dt"} |-> IF a = "dy" THEN 4 ELSE 3],
     inserted |-> {},
     copied |-> {}]

DstRefs ==
    {None} \cup
    {Some([coordinates |-> c, domain_ancillaries |-> {}]) :
        c \in {{}, {"dimY"}, {"dimX", "dimY"}, {"dimX", "dimT"}, {"dimT"}}}

\* f.constructs(filter_by_type=types, todict=True): the keys
ConstructsOfType(fld, types) ==
    {k \in DOMAIN fld.constructs : fld.constructs[k].type \in types}

\* The axes spanned by the coordinates of coordinate reference `ref` of
\* the field whose constructs are `constructs`.
ref_axes(constructs, ref) ==
    UNION {Range(constructs[c].axes) : c \in ref.coordinates \cap DOMAIN constructs}

\* f.del_coordinate_reference(ref_key) for each key in `ref_keys`: remove
\* the coordinate reference and all of its domain ancillaries.
del_coordinate_references(fld, ref_keys) ==
    [fld EXCEPT !.refs = Without(@, ref_keys),
                !.constructs =
                    Without(@, UNION {fld.refs[r].domain_ancillaries :
                                         r \in ref_keys})]

\* f.del_construct(key) for each key in `keys`: a removed coordinate or
\* domain ancillary is also removed from the coordinate references.
del_constructs(fld, keys) ==
    [fld EXCEPT !.constructs = Without(@, keys),
                !.refs = [r \in DOMAIN fld.refs |->
                             [coordinates |-> fld.refs[r].coordinates \ keys,
                              domain_ancillaries |->
                                  fld.refs[r].domain_ancillaries \ keys]]]

\* copied_references without the test that there are any axes.
copied_references_subset_only(d, dak) ==
    {r \in DOMAIN d.refs : ref_axes(d.constructs, d.refs[r]) \subseteq Range(dak)}

\* The coordinate references of destination d that are copied: those with
\* at least one coordinate axis and all of them regridding axes.
copied_references(d, dak) ==
    {r \in DOMAIN d.refs :
        /\ ref_axes(d.constructs, d.refs[r]) # {}
        /\ ref_axes(d.constructs, d.refs[r]) \subseteq Range(dak)}

\* set(axes).intersection(keys) is not empty, taken as all of `keys`
\* being among the axes.
intersects_all(axes, keys) == Range(keys) \subseteq Range(axes)

\* set(axes).intersection(keys) is not empty
intersects(axes, keys) == Range(axes) \cap Range(keys) # {}

\* operator.get_parameter("dst") with its coordinate references deleted.
get_parameter_dst_stripped(o) == [o.dst EXCEPT !.refs = <<>>]

\* operator.get_parameter("dst"), as the operator holds it when
\* regrid_update_non_coordinates has run.
get_parameter_dst(o) == o.dst

\* regrid_update_non_coordinates: the field, the operator's destination
\* and the exception at its exit.  `key` is the last value the loop over
\* the cell measures and field ancillaries gave the variable `key` (None
\* if that loop had nothing to go through); `fail` says whether regridding
\* the converted field raises ValueError.  The fields here have at most one
\* domain ancillary.
regrid_update_non_coordinates(fld, o, sak, dak, sizes, cart, key, fail) ==
    LET data_axes == [k \in DOMAIN fld.constructs |-> fld.constructs[k].axes]
        f1 == del_coordinate_references(
                  fld,
                  {r \in DOMAIN fld.refs :
                      \E c \in fld.refs[r].coordinates :
                          intersects(data_axes[c], sak)})
        f2 == del_constructs(
                  f1,
                  {k \in ConstructsOfType(f1, {"cell_measure", "field_ancillary"}) :
                      intersects(data_axes[k], sak)})
        das == ConstructsOfType(f2, {"domain_ancillary"})
        spanning == {k \in das : Range(sak) \subseteq Range(data_axes[k])}
        f3 == del_constructs(f2, das \ spanning)
        copied(g) == [g EXCEPT !.copied = copied_references(o.dst, dak)]
        exit(g, exc) == [f |-> g, dst |-> get_parameter_dst(o), raised |-> exc]
    IN  IF spanning = {}
        THEN exit(copied(f3), "none")
        ELSE IF key = None
        THEN exit(f3, "UnboundLocalError")
        ELSE IF key[1] \notin DOMAIN f3.constructs
        THEN exit(f3, "ValueError")
        ELSE IF fail
        THEN exit(f3, "ValueError")
        ELSE LET da_key == CHOOSE k \in spanning : TRUE
                 resized ==
                     [a \in DOMAIN f3.sizes |->
                         IF \E n \in DOMAIN sak : sak[n] = a
                         THEN sizes[CHOOSE n \in DOMAIN sak : sak[n] = a]
                         ELSE f3.sizes[a]]
                 f4 == [f3 EXCEPT
                           !.sizes = resized,
                           !.constructs[da_key] =
                               Construct("domain_ancillary", data_axes[da_key],
                                         key[1], "dst")]
             IN  exit(copied(f4), "none")

\* The regridding axes: two for spherical regridding, one or two here for
\* Cartesian regridding.
InitAxes ==
    /\ Cartesian \in BOOLEAN
    /\ \/ /\ src_axis_keys = <<"x", "y">>
          /\ dst_axis_keys = <<"dx", "dy">>
          /\ dst_axis_sizes = <<3, 4>>
       \/ /\ Cartesian
          /\ src_axis_keys = <<"y">>
          /\ dst_axis_keys = <<"dy">>
          /\ dst_axis_sizes = <<4>>

\* The values of the variables that the metadata functions do not use.
InitPropagate ==
    /\ pc = "start"
    /\ raised = "none"
    /\ method = "linear"
    /\ use_src_mask = TRUE
    /\ manager = TRUE
    /\ handles = {"regrid", "src_field", "dst_field"}
    /\ acquired = {}
    /\ operator_method = None
    /\ NoLatLon
    /\ NoUM
    /\ NoCall
    /\ NoGrid
    /\ NoSection
    /\ NoCompat

InitUpdateNonCoordinates ==
    /\ op = "regrid_update_non_coordinates"
    /\ InitPropagate
    /\ InitAxes
    /\ \E cm \in {None, Some(<<"x", "y">>), Some(<<"z">>), Some(<<"y", "z">>)},
          fa \in {None, Some(<<"y">>), Some(<<"z">>)},
          da \in {None, Some(<<"x", "y">>), Some(<<"z", "y", "x">>),
                  Some(<<"z">>), Some(<<"x">>)} :
          \E ref \in SrcRefs(None, da) :
              src = SrcField(None, cm, fa, da, ref)
    /\ f = src
    /\ \E ref \in DstRefs :
          operator = [method |-> "linear", dst |-> DstField(None, ref)]
    /\ dst = None

CallUpdateNonCoordinates ==
    /\ op = "regrid_update_non_coordinates"
    /\ pc = "start"
    /\ \E key \in {None} \cup {Some(k) : k \in DOMAIN f.constructs},
          fail \in BOOLEAN :
          /\ LET keys == ConstructsOfType(f, {"cell_measure", "field_ancillary"})
             IN  IF keys = {} THEN key = None ELSE key # None /\ key[1] \in keys
          /\ LET r == regrid_update_non_coordinates(
                          f, operator, src_axis_keys, dst_axis_keys,
                          dst_axis_sizes, Cartesian, key, fail)
             IN  /\ f' = r.f
                 /\ operator' = [operator EXCEPT !.dst = r.dst]
                 /\ raised' = r.raised
    /\ pc' = Exit(raised')
    /\ UNCHANGED <<op, method, use_src_mask, solver_vars, grid_vars,
                   section_vars, compat_vars, operator_method,
                   propagate_args, latlon_vars, um_vars, call_vars>>

\* regrid_copy_coordinate_references(f, dst, dst_axis_keys): the field
\* at its exit.
regrid_copy_coordinate_references(fld, d, dak) ==
    [fld EXCEPT !.copied = copied_references(d, dak)]

InitCopyCoordinateReferences ==
    /\ op = "regrid_copy_coordinate_references"
    /\ InitPropagate
    /\ InitAxes
    /\ src = SrcField(None, None, None, None, None)
    /\ f = src
    /\ operator = None
    /\ \E aux \in {None, Some(<<"dx", "dy">>)} :
          \E ref \in DstRefs \cup
                     (IF aux = None
                      THEN {}
                      ELSE {Some([coordinates |-> {"aux0"},
                                  domain_ancillaries |-> {}])}) :
              dst = DstField(aux, ref)

CallCopyCoordinateReferences ==
    /\ op = "regrid_copy_coordinate_references"
    /\ pc = "start"
    /\ f' = regrid_copy_coordinate_references(f, dst, dst_axis_keys)
    /\ pc' = "done"
    /\ UNCHANGED <<op, raised, method, use_src_mask, solver_vars, grid_vars,
                   section_vars, compat_vars, operator_vars, propagate_args,
                   latlon_vars, um_vars, call_vars>>

\* A destination given as a dictionary: the destination coordinates
\* made from it (name, number of dimensions, size) and, for 2-d
\* coordinates, the order of the axes of each.
DictDst(names, ndim, order) ==
    [dst_coords |->
         [n \in DOMAIN names |->
             [name |-> names[n], ndim |-> ndim,
              size |-> IF ndim = 2 THEN 12 ELSE IF names[n] = "latitude" THEN 4 ELSE 3]],
     dst_coord_order |-> order]

\* isinstance(dst, dict)
dst_is_dict(d) == "dst_coords" \in DOMAIN d

\* The source axis that corresponds to destination axis key_d.
axis_map(sak, dak, key_d) == sak[CHOOSE n \in DOMAIN dak : dak[n] = key_d]

\* domain_axes[axis].set_size(sizes[n]) for each axis sak[n] with n in `ns`
set_sizes(fld, sak, sizes, ns) ==
    [fld EXCEPT !.sizes =
        [a \in DOMAIN fld.sizes |->
            IF \E n \in ns : sak[n] = a
            THEN sizes[CHOOSE n \in ns : sak[n] = a]
            ELSE fld.sizes[a]]]

\* The destination dimension coordinates set on the source axes that
\* correspond to their destination axes.
inserted_dimension_coordinates(d, sak, dak) ==
    {Construct("dimension_coordinate", <<axis_map(sak, dak, d.constructs[k].axes[1])>>,
               k, "dst") :
        k \in {c \in ConstructsOfType(d, {"dimension_coordinate"}) :
                  d.constructs[c].axes[1] \in Range(dak)}}

\* The destination auxiliary coordinates whose axes are a subset of the
\* destination regridding axes.
subset_auxiliary_coordinates(d, dak) ==
    {c \in ConstructsOfType(d, {"auxiliary_coordinate"}) :
        Range(d.constructs[c].axes) \subseteq Range(dak)}

Reverse(seq) == [n \in DOMAIN seq |-> seq[Len(seq) + 1 - n]]

\* regrid_update_coordinates(f, dst, src_axis_keys, dst_axis_keys,
\* Cartesian, dst_coords, dst_axis_sizes, dst_coord_order): the field and
\* the exception at its exit.  The last block tests `dst_dict`, which is
\* not a name of the function or of the module.
regrid_update_coordinates(fld, d, sak, dak, cart, sizes) ==
    LET f1 == del_constructs(
                  fld,
                  {k \in ConstructsOfType(fld, {"dimension_coordinate",
                                                "auxiliary_coordinate"}) :
                      intersects(fld.constructs[k].axes, sak)})
        from_dict_1d ==
            {Construct("coordinate", <<sak[n]>>, d.dst_coords[n].name, "dst") :
                n \in DOMAIN sak \cap DOMAIN d.dst_coords}
        from_dict_2d ==
            {Construct("coordinate",
                       [i \in DOMAIN d.dst_coord_order[n] |->
                           sak[d.dst_coord_order[n][i] + 1]],
                       d.dst_coords[n].name, "dst") :
                n \in DOMAIN d.dst_coords \cap DOMAIN d.dst_coord_order}
        f2 == IF cart
              THEN IF dst_is_dict(d)
                   THEN [set_sizes(f1, sak,
                                   [n \in DOMAIN d.dst_coords |-> d.dst_coords[n].size],
                                   DOMAIN sak \cap DOMAIN d.dst_coords)
                            EXCEPT !.inserted = from_dict_1d]
                   ELSE [set_sizes(f1, sak,
                                   [n \in DOMAIN dak |-> d.sizes[dak[n]]],
                                   DOMAIN sak \cap DOMAIN dak)
                            EXCEPT !.inserted =
                                inserted_dimension_coordinates(d, sak, dak)
                                \cup {Construct("auxiliary_coordinate",
                                                [i \in DOMAIN d.constructs[k].axes |->
                                                    axis_map(sak, dak,
                                                             d.constructs[k].axes[i])],
                                                k, "dst") :
                                         k \in subset_auxiliary_coordinates(d, dak)}]
              ELSE IF dst_is_dict(d)
                   THEN [set_sizes(f1, sak, sizes, DOMAIN sak \cap DOMAIN sizes)
                            EXCEPT !.inserted =
                                IF d.dst_coords[1].ndim = 2
                                THEN from_dict_2d
                                ELSE from_dict_1d]
                   ELSE [set_sizes(f1, sak, sizes, DOMAIN sak \cap DOMAIN sizes)
                            EXCEPT !.inserted =
                                inserted_dimension_coordinates(d, sak, dak)
                                \cup {Construct("auxiliary_coordinate",
                                                IF d.constructs[k].axes = dak
                                                THEN sak
                                                ELSE Reverse(sak),
                                                k, "dst") :
                                         k \in subset_auxiliary_coordinates(d, dak)}]
    IN  [f |-> f2, raised |-> "NameError"]

InitUpdateCoordinates ==
    /\ op = "regrid_update_coordinates"
    /\ InitPropagate
    /\ InitAxes
    /\ \E aux \in {None, Some(<<"x", "y">>), Some(<<"z">>), Some(<<"z", "y">>)} :
          \E ref \in SrcRefs(aux, None) :
              src = SrcField(aux, None, None, None, ref)
    /\ f = src
    /\ operator = None
    /\ \/ \E aux \in {None, Some(<<"dx", "dy">>), Some(<<"dy", "dx">>)} :
             /\ aux # None => Len(dst_axis_keys) = 2
             /\ dst = DstField(aux, None)
       \/ /\ Cartesian
          /\ dst = DictDst([n \in DOMAIN dst_axis_keys |->
                               IF Len(dst_axis_keys) = 1 \/ n = 2
                               THEN "latitude" ELSE "longitude"], 1, <<>>)
       \/ /\ ~Cartesian
          /\ \/ dst = DictDst(<<"longitude", "latitude">>, 1, <<>>)
             \/ \E order \in {<<0, 1>>, <<1, 0>>} :
                   dst = DictDst(<<"longitude", "latitude">>, 2, <<order, order>>)

CallUpdateCoordinates ==
    /\ op = "regrid_update_coordinates"
    /\ pc = "start"
    /\ LET r == regrid_update_coordinates(f, dst, src_axis_keys, dst_axis_keys,
                                          Cartesian, dst_axis_sizes)
       IN  /\ f' = r.f
           /\ raised' = r.raised
    /\ pc' = Exit(raised')
    /\ UNCHANGED <<op, method, use_src_mask, solver_vars, grid_vars,
                   section_vars, compat_vars, operator_vars, propagate_args,
                   latlon_vars, um_vars, call_vars>>

(***************************************************************************)
(* Coordinate extraction for spherical regridding.  A field is described   *)
(* by what the search for its coordinates finds: whether the `axes`        *)
(* keyword was given, whether its X and Y dimension coordinates are        *)
(* longitude and latitude, whether it has unique 2-d auxiliary longitude   *)
(* and latitude coordinates spanning the X and Y axes, the sizes of the    *)
(* X and Y axes and which coordinates have bounds.  A dictionary is        *)
(* described by the shapes of its 'longitude' and 'latitude' entries and   *)
(* by its 'axes' entry (None: the key is missing).                         *)
(***************************************************************************)

\* How a call ends with an exception.
Fail(exc, msg) == [raised |-> exc, message |-> msg, latlon |-> None]

\* An argument that the caller did not pass.
Missing == "missing"

\* seq.index(e): the 0-based position of e, None for Python's ValueError.
Index(seq, e) ==
    IF \E i \in DOMAIN seq : seq[i] = e
    THEN Some((CHOOSE i \in DOMAIN seq : seq[i] = e) - 1)
    ELSE None

\* The size-1 test with the role left out.
size_1_dimension_any_role(nm, m, x_size, y_size) ==
    /\ m \in {"linear", "bilinear", "patch"}
    /\ (x_size = 1 \/ y_size = 1)

\* The test for a size 1 latitude or longitude dimension.
size_1_dimension(nm, m, x_size, y_size) ==
    /\ nm = "source"
    /\ m \in {"linear", "bilinear", "patch"}
    /\ (x_size = 1 \/ y_size = 1)

\* get_bounds(coords).  `coords` is [type |-> "dict", items |-> key -> the
\* coordinate's bounds or None] or a tuple or list, which has no items().
\* The second comprehension iterates over the keys of the dictionary and
\* unpacks each key, a string of three characters, into `key, b`.
get_bounds(coords) ==
    IF coords.type # "dict"
    THEN [raised |-> "AttributeError", message |-> "items", bounds |-> None]
    ELSE IF DOMAIN coords.items = {}
         THEN [raised |-> "none", message |-> "", bounds |-> <<>>]
         ELSE [raised |-> "ValueError",
               message |-> "too many values to unpack",
               bounds |-> None]

\* regrid_get_coord_ESMF_order(f, axis_keys, coord_keys), with coord_axes
\* the data axes of each coordinate.
regrid_get_coord_ESMF_order(coord_axes, axis_keys) ==
    [key \in DOMAIN coord_axes |->
        [n \in DOMAIN axis_keys |-> Index(coord_axes[key], axis_keys[n])]]

\* The part of regrid_get_latlon_field after the coordinates were found.
regrid_get_latlon_field_found(c, nm, m, cyc) ==
    LET local_coords_1D == c.axes = None
        two_d == c.axes # None \/ ~c.dim_lonlat
        axis_keys == <<"x", "y">>
        axis_sizes == <<c.x_size, c.y_size>>
        coord_axes == IF two_d
                      THEN [lon |-> <<"y", "x">>, lat |-> <<"y", "x">>]
                      ELSE [lon |-> <<"x">>, lat |-> <<"y">>]
        coords == [type |-> "dict",
                   items |-> [lon |-> IF c.lon_bounds
                                      THEN Some("lon_bounds") ELSE None,
                              lat |-> IF c.lat_bounds
                                      THEN Some("lat_bounds") ELSE None]]
        coord_ESMF_order == regrid_get_coord_ESMF_order(coord_axes, axis_keys)
        b == IF regridding_is_conservative(m)
             THEN get_bounds(coords)
             ELSE IF cyc = None /\ local_coords_1D
                  THEN get_bounds([type |-> "dict",
                                   items |-> [k \in {"lon"} |->
                                                 coords.items[k]]])
                  ELSE [raised |-> "none", message |-> "", bounds |-> <<>>]
    IN  IF size_1_dimension(nm, m, c.x_size, c.y_size)
        THEN Fail("ValueError", "size 1")
        ELSE IF \E key \in DOMAIN coord_ESMF_order :
                    None \in Range(coord_ESMF_order[key])
        THEN Fail("ValueError", "not in tuple")
        ELSE IF b.raised # "none"
        THEN Fail(b.raised, b.message)
        ELSE IF /\ regridding_is_conservative(m)
                /\ Cardinality(DOMAIN b.bounds) < 2
        THEN Fail("ValueError", "TODO")
        ELSE [raised |-> "none",
              message |-> "",
              latlon |-> Some([axis_keys |-> Reverse(axis_keys),
                               axis_sizes |-> Reverse(axis_sizes),
                               coords |-> DOMAIN coords.items,
                               ndim |-> IF two_d THEN 2 ELSE 1,
                               bounds |-> b.bounds,
                               coord_ESMF_order |-> coord_ESMF_order])]

\* regrid_get_latlon_field(f, name, method, cyclic, axes=None)
regrid_get_latlon_field(c, nm, m, cyc) ==
    IF cyc = Missing
    THEN Fail("TypeError", "missing argument cyclic")
    ELSE IF (c.axes # None \/ ~c.dim_lonlat) /\ ~c.aux_2d
    THEN Fail("ValueError", "coordinates not found")
    ELSE regrid_get_latlon_field_found(c, nm, m, cyc)

\* The product of the entries of a shape.
Size(shape) ==
    IF Len(shape) = 1 THEN shape[1]
    ELSE IF Len(shape) = 2 THEN shape[1] * shape[2]
    ELSE shape[1] * shape[2] * shape[3]

\* The part of regrid_get_latlon_dict after axis_sizes was set: `order`
\* is coord_ESMF_order, None when the name was never bound.
regrid_get_latlon_dict_bounds(d, m, cyc, local_coords_1D, axis_sizes, order) ==
    LET b1 == IF regridding_is_conservative(m)
              THEN get_bounds([type |-> "tuple"])
              ELSE [raised |-> "none", message |-> "", bounds |-> <<>>]
        b2 == IF b1.raised = "none" /\ cyc = None /\ local_coords_1D
              THEN get_bounds([type |-> "list"])
              ELSE b1
    IN  IF b2.raised # "none"
        THEN Fail(b2.raised, b2.message)
        ELSE IF order = None
        THEN Fail("UnboundLocalError", "coord_ESMF_order")
        ELSE [raised |-> "none",
              message |-> "",
              latlon |-> Some([axis_keys |-> <<>>,
                               axis_sizes |-> Reverse(axis_sizes),
                               coords |-> {"lon", "lat"},
                               ndim |-> Len(d.longitude[1]),
                               bounds |-> b2.bounds,
                               coord_ESMF_order |-> order[1]])]

\* regrid_get_latlon_dict(d, name, method, cyclic, axes=None)
regrid_get_latlon_dict(d, nm, m, cyc) ==
    IF cyc = Missing
    THEN Fail("TypeError", "missing argument cyclic")
    ELSE IF d.longitude = None \/ d.latitude = None
    THEN Fail("ValueError", "keys longitude and latitude")
    ELSE LET lon == d.longitude[1]
             lat == d.latitude[1]
         IN  IF Len(lon) = 1
             THEN regrid_get_latlon_dict_bounds(
                      d, m, cyc, TRUE, <<Size(lon), Size(lat)>>, None)
             ELSE IF Len(lon) = 2
             THEN IF d.axes = None
                  THEN Fail("ValueError", "key axes")
                  ELSE IF d.axes[1] \notin {<<"X", "Y">>, <<"Y", "X">>}
                  THEN Fail("ValueError", "axes")
                  ELSE IF lon # lat
                  THEN Fail("ValueError", "same shape")
                  ELSE IF d.axes[1] = <<"X", "Y">>
                  THEN regrid_get_latlon_dict_bounds(
                           d, m, cyc, FALSE, lon,
                           Some(<<<<0, 1>>, <<0, 1>>>>))
                  ELSE regrid_get_latlon_dict_bounds(
                           d, m, cyc, FALSE, Reverse(lon),
                           Some(<<<<1, 0>>, <<1, 0>>>>))
             ELSE Fail("ValueError", "1-d or 2-d")

\* regrid_get_latlon(dst, name, method, axes=None): neither call passes
\* `cyclic`.
regrid_get_latlon(c, nm, m) ==
    IF c.type = "dict"
    THEN regrid_get_latlon_dict(c, nm, m, Missing)
    ELSE regrid_get_latlon_field(c, nm, m, Missing)

\* The fields and dictionaries that coordinates are extracted from.
FieldCoordinates ==
    [type : {"Field"},
     axes : {None, Some(<<"X", "Y">>)},
     dim_lonlat : BOOLEAN,
     aux_2d : BOOLEAN,
     x_size : Sizes,
     y_size : Sizes,
     lon_bounds : BOOLEAN,
     lat_bounds : BOOLEAN]

Shapes == {<<2>>, <<3>>, <<2, 3>>, <<3, 2>>, <<2, 2, 2>>}

DictCoordinates ==
    [type : {"dict"},
     longitude : {None} \cup {Some(s) : s \in Shapes},
     latitude : {None} \cup {Some(s) : s \in Shapes},
     axes : {None, Some(<<"X", "Y">>), Some(<<"Y", "X">>), Some(<<"X", "Z">>)}]

\* The methods a dictionary's coordinates are extracted for.
DictMethods == {"linear", "conservative", "nearest_stod"}

InitLatLon ==
    /\ pc = "start"
    /\ raised = "none"
    /\ use_src_mask = TRUE
    /\ manager = TRUE
    /\ handles = {}
    /\ acquired = {}
    /\ bounds = <<>>
    /\ cyclic \in {None, Some(FALSE), Some(TRUE)}
    /\ period = None
    /\ coords_1D = TRUE
    /\ contiguous = None
    /\ grid = None
    /\ message = ""
    /\ latlon = None
    /\ NoUM
    /\ NoCall
    /\ operator = None
    /\ operator_method = None
    /\ NoPropagate
    /\ NoSection
    /\ NoCompat

InitGetLatLonField ==
    /\ op = "regrid_get_latlon_field"
    /\ InitLatLon
    /\ name \in {"source", "destination"}
    /\ method \in regridding_methods
    /\ coordinates \in FieldCoordinates

InitGetLatLonDict ==
    /\ op = "regrid_get_latlon_dict"
    /\ InitLatLon
    /\ name = "destination"
    /\ method \in DictMethods
    /\ coordinates \in DictCoordinates

InitGetLatLon ==
    /\ op = "regrid_get_latlon"
    /\ InitLatLon
    /\ cyclic = None
    /\ method \in DictMethods
    /\ \/ /\ name = "destination"
          /\ coordinates \in DictCoordinates
          /\ coordinates.axes \in {None, Some(<<"X", "Y">>)}
       \/ /\ name \in {"source", "destination"}
          /\ coordinates \in FieldCoordinates
          /\ coordinates.axes = None
          /\ coordinates.lon_bounds = coordinates.lat_bounds

CallGetLatLonField ==
    /\ op = "regrid_get_latlon_field"
    /\ pc = "start"
    /\ LET r == regrid_get_latlon_field(coordinates, name, method, cyclic) IN
          /\ raised' = r.raised
          /\ message' = r.message
          /\ latlon' = r.latlon
    /\ pc' = Exit(raised')
    /\ UNCHANGED <<op, method, use_src_mask, solver_vars, grid_vars,
                   section_vars, compat_vars, operator_vars, f,
                   propagate_args, name, coordinates, um_vars,
                   call_vars>>

CallGetLatLonDict ==
    /\ op = "regrid_get_latlon_dict"
    /\ pc = "start"
    /\ LET r == regrid_get_latlon_dict(coordinates, name, method, cyclic) IN
          /\ raised' = r.raised
          /\ message' = r.message
          /\ latlon' = r.latlon
    /\ pc' = Exit(raised')
    /\ UNCHANGED <<op, method, use_src_mask, solver_vars, grid_vars,
                   section_vars, compat_vars, operator_vars, f,
                   propagate_args, name, coordinates, um_vars,
                   call_vars>>

CallGetLatLon ==
    /\ op = "regrid_get_latlon"
    /\ pc = "start"
    /\ LET r == regrid_get_latlon(coordinates, name, method) IN
          /\ raised' = r.raised
          /\ message' = r.message
          /\ latlon' = r.latlon
    /\ pc' = Exit(raised')
    /\ UNCHANGED <<op, method, use_src_mask, solver_vars, grid_vars,
                   section_vars, compat_vars, operator_vars, f,
                   propagate_args, name, coordinates, um_vars,
                   call_vars>>

(***************************************************************************)
(* The STASH-to-standard-name table of the PP/UM reader.  A PP file is     *)
(* identified by the (model, STASH code) of its field; reading it gives    *)
(* the field the standard name and units that the table in force has for   *)
(* that code.                                                              *)
(***************************************************************************)

\* The state of a call that uses none of the regridding variables.
InitIdle ==
    /\ pc = "start"
    /\ raised = "none"
    /\ method = "linear"
    /\ use_src_mask = TRUE
    /\ manager = TRUE
    /\ handles = {}
    /\ acquired = {}
    /\ operator = None
    /\ operator_method = None
    /\ NoPropagate
    /\ NoLatLon
    /\ NoGrid
    /\ NoSection
    /\ NoCompat

MaxLoads == 4

\* (model, STASH code) pairs; wgdos_packed.pp holds a field of 1!30201.
StashCodes == {"1!30201", "1!30202"}

\* The entries of the default table for these codes.
DefaultTable ==
    [c \in StashCodes |->
        [standard_name |-> IF c = "1!30201" THEN "eastward_wind"
                                            ELSE "northward_wind",
         units |-> "m s-1"]]

\* The tables that are loaded: each gives some codes the name NEW_NAME
\* and the units Pa.
NewTables ==
    {[c \in S |-> [standard_name |-> "NEW_NAME", units |-> "Pa"]] :
        S \in (SUBSET StashCodes) \ {{}}}

\* A load with no arguments that leaves the table in force as it is.
load_stash2standard_name_keep(current, table, merge) ==
    IF table = None
    THEN current
    ELSE IF merge
         THEN [c \in DOMAIN current \cup DOMAIN table[1] |->
                  IF c \in DOMAIN table[1] THEN table[1][c] ELSE current[c]]
         ELSE table[1]

\* load_stash2standard_name(table=None, merge=True): the table in force
\* after the call.  With no table the default table replaces it.
load_stash2standard_name(current, table, merge) ==
    LET new == IF table = None THEN DefaultTable ELSE table[1]
    IN  IF table # None /\ merge
        THEN [c \in DOMAIN current \cup DOMAIN new |->
                 IF c \in DOMAIN new THEN new[c] ELSE current[c]]
        ELSE new

\* cf.read(ppfile)[0]: the identity and units of the field of the file.
read(table, code) ==
    IF code \in DOMAIN table THEN Some(table[code]) ELSE None

InitStash ==
    /\ op = "load_stash2standard_name"
    /\ InitIdle
    /\ stash2standard_name = DefaultTable
    /\ loads = <<>>
    /\ ppfield = None
    /\ NoCall

CallLoadStash ==
    /\ op = "load_stash2standard_name"
    /\ Len(loads) < MaxLoads
    /\ \E table \in {None} \cup {Some(t) : t \in NewTables} :
          \E merge \in BOOLEAN :
              /\ table = None => merge
              /\ stash2standard_name' =
                     load_stash2standard_name(stash2standard_name, table,
                                              merge)
              /\ loads' = Append(loads, [table |-> table, merge |-> merge])
    /\ ppfield' = None
    /\ pc' = "loaded"
    /\ UNCHANGED <<op, raised, method, use_src_mask, solver_vars, grid_vars,
                   section_vars, compat_vars, operator_vars, f,
                   propagate_args, latlon_vars, call_vars>>

CallRead ==
    /\ op = "load_stash2standard_name"
    /\ \E code \in StashCodes :
          ppfield' = [file |-> code, field |-> read(stash2standard_name, code)]
    /\ pc' = "read"
    /\ UNCHANGED <<op, raised, method, use_src_mask, solver_vars, grid_vars,
                   section_vars, compat_vars, operator_vars, f,
                   propagate_args, latlon_vars, stash2standard_name, loads,
                   call_vars>>

(***************************************************************************)
(* Grid building.  A coordinate is [shape, bounds]: its shape and its      *)
(* bounds array, or None when it has no bounds.  The bounds of n 1-d cells *)
(* are a sequence of n pairs; the bounds of n x m 2-d cells are n rows of  *)
(* m cells of four vertices (vertex v of the code is entry v + 1).  A grid *)
(* is the record of what the builder hands to ESMF: the cell counts, the   *)
(* coordinate system, the number of periodic dimensions, the stagger       *)
(* locations, the corner array of each dimension and the mask.             *)
(***************************************************************************)

\* np.clip(v, lo, hi)
clip(v, lo, hi) == IF v < lo THEN lo ELSE IF v > hi THEN hi ELSE v

\* b[:, 0]
lower_bounds(b) == [k \in 1..Len(b) |-> b[k][1]]

\* tmp[:n] = b[:, 0]; tmp[n] = b[-1, 1]
stitch_1d(b) ==
    [k \in 1..(Len(b) + 1) |-> IF k <= Len(b) THEN b[k][1] ELSE b[Len(b)][2]]

\* tmp[:n, :m] = b[:, :, 0]; tmp[:n, m] = b[:, -1, 1];
\* tmp[n, :m] = b[-1, :, 3]; tmp[n, m] = b[-1, -1, 2]
stitch_2d(b) ==
    LET n == Len(b)
        m == Len(b[1])
    IN  [i \in 1..(n + 1) |->
            [j \in 1..(m + 1) |->
                IF i <= n /\ j <= m THEN b[i][j][1]
                ELSE IF i <= n THEN b[i][m][2]
                ELSE IF j <= m THEN b[n][j][4]
                ELSE b[n][m][3]]]

\* a.transpose(order) of a 2-d array
transpose(a, order) ==
    IF order = <<0, 1>>
    THEN a
    ELSE [j \in 1..Len(a[1]) |-> [i \in 1..Len(a) |-> a[i][j]]]

\* a[:-1, :]
drop_last_row(a) == [i \in 1..(Len(a) - 1) |-> a[i]]

\* The spherical branch of create_Grid.
create_Grid_spherical(coords, use_bounds, mask, cyc, coords_2D, coord_order) ==
    LET lon == coords[1]
        lat == coords[2]
        x_order == coord_order[1]
        y_order == coord_order[2]
        shape == IF ~coords_2D
                 THEN <<lon.shape[1], lat.shape[1]>>
                 ELSE IF x_order = <<0, 1>> THEN lon.shape
                                            ELSE Reverse(lon.shape)
        lat_shape == IF ~coords_2D \/ y_order = <<0, 1>>
                     THEN lat.shape ELSE Reverse(lat.shape)
        \* `cyclic` after the test for cyclicity
        cyclic1 == IF /\ ~coords_2D
                      /\ cyc = None
                      /\ lon.bounds # None
                   THEN Some(lon_bounds_span_period(lon.bounds[1]))
                   ELSE cyc
        periodic == cyclic1 = Some(TRUE)
        y_clipped == IF coords_2D
                     THEN [i \in DOMAIN lat.bounds[1] |->
                              [j \in DOMAIN lat.bounds[1][i] |->
                                  [v \in 1..4 |->
                                      clip(lat.bounds[1][i][j][v], -90, 90)]]]
                     ELSE [k \in DOMAIN lat.bounds[1] |->
                              <<clip(lat.bounds[1][k][1], -90, 90),
                                clip(lat.bounds[1][k][2], -90, 90)>>]
        corner ==
            IF ~coords_2D
            THEN <<IF periodic THEN lower_bounds(lon.bounds[1])
                               ELSE stitch_1d(lon.bounds[1]),
                   stitch_1d(y_clipped)>>
            ELSE LET x_bounds == transpose(stitch_2d(lon.bounds[1]), x_order)
                     y_bounds == transpose(stitch_2d(y_clipped), y_order)
                 IN  IF periodic
                     THEN <<drop_last_row(x_bounds), drop_last_row(y_bounds)>>
                     ELSE <<x_bounds, y_bounds>>
    IN  IF coords_2D /\ lat_shape # shape
        THEN [raised |-> "ValueError", grid |-> None]
        ELSE IF use_bounds /\ (lon.bounds = None \/ lat.bounds = None)
        THEN [raised |-> "ValueError", grid |-> None]
        ELSE [raised |-> "none",
              grid |-> Some([max_index |-> shape,
                             coord_sys |-> "SPH_DEG",
                             num_peri_dims |-> IF periodic THEN 1 ELSE 0,
                             staggerloc |-> IF use_bounds
                                            THEN <<"CORNER", "CENTER">>
                                            ELSE <<"CENTER">>,
                             corner |-> IF use_bounds THEN Some(corner)
                                                      ELSE None,
                             mask |-> mask])]

\* The bounds of n contiguous 1-d cells of width 1 starting at x0.
UnitCells(n, x0) == [k \in 1..n |-> <<x0 + k - 1, x0 + k>>]

\* coord.create_bounds(): bounds made from the cell centres.
create_bounds(coord) == UnitCells(coord.shape[1], 0)

\* The coordinate that create_Grid puts in front of a single axis:
\* Data(0) with bounds [finfo.epsneg, finfo.eps].
SyntheticCoordinate ==
    [shape |-> <<1>>, bounds |-> Some(<< <<"epsneg", "eps">> >>)]

\* mask[None, :] of a 1-d mask
leading_dimension(mask) ==
    [shape |-> <<1>> \o mask.shape,
     masked |-> {<<1>> \o index : index \in mask.masked}]

\* The Cartesian branch of create_Grid.
create_Grid_Cartesian(coords, use_bounds, mask) ==
    IF Len(coords) < 1 \/ Len(coords) > 3
    THEN [raised |-> "ValueError", grid |-> None]
    ELSE IF Len(coords) = 1 /\ ~use_bounds
    THEN [raised |-> "ValueError", grid |-> None]
    ELSE LET coords1 == IF Len(coords) = 1
                        THEN <<SyntheticCoordinate>> \o coords
                        ELSE coords
             mask1 == IF Len(coords) = 1 /\ mask # None
                      THEN Some(leading_dimension(mask[1]))
                      ELSE mask
             ndim == Len(coords1)
             shape == [d \in 1..ndim |-> coords1[d].shape[1]]
             boundsD(d) == IF coords1[d].bounds = None
                           THEN create_bounds(coords1[d])
                           ELSE coords1[d].bounds[1]
             corner == [d \in 1..ndim |->
                           IF shape[d] > 1
                           THEN stitch_1d(boundsD(d))
                           ELSE <<boundsD(d)[1][1], boundsD(d)[1][2]>>]
         IN  [raised |-> "none",
              grid |-> Some(
                  [max_index |-> shape,
                   coord_sys |-> "CART",
                   num_peri_dims |-> 0,
                   staggerloc |->
                       IF use_bounds
                       THEN IF ndim < 3
                            THEN <<"CORNER", "CENTER">>
                            ELSE <<"CENTER_VCENTER", "CORNER_VFACE">>
                       ELSE IF ndim < 3 THEN <<"CENTER">>
                                        ELSE <<"CENTER_VCENTER">>,
                   corner |-> IF use_bounds THEN Some(corner) ELSE None,
                   mask |-> mask1])]

\* gmask[...] = 1; gmask[mask] = 0: the cells that the boolean array
\* `mask` selects, which must have the shape of the grid, are set to 0.
add_item_MASK(g, mask) ==
    IF mask = None
    THEN None
    ELSE Some([shape |-> mask[1].shape, zero |-> mask[1].masked])

\* create_Grid(coords, use_bounds, mask, cartesian, cyclic, coords_2D,
\* coord_order)
create_Grid(coords, use_bounds, mask, cartesian, cyc, coords_2D, coord_order) ==
    LET r == IF cartesian
             THEN create_Grid_Cartesian(coords, use_bounds, mask)
             ELSE create_Grid_spherical(coords, use_bounds, mask, cyc,
                                        coords_2D, coord_order)
    IN  IF r.raised # "none"
        THEN r
        ELSE [r EXCEPT !.grid =
                  Some([r.grid[1] EXCEPT
                            !.mask = add_item_MASK(r.grid[1], r.grid[1].mask)])]

\* create_Cartesian_ESMF_grid(coords, bounds=None, mask=None): the shape is
\* computed from `ccords`, a name that is not bound.
create_Cartesian_ESMF_grid(coords, bnds, mask) ==
    [raised |-> "NameError", grid |-> None]

\* The arguments of create_Grid for 1-d longitude and latitude.
GridArgs1D ==
    UNION {{[cartesian |-> FALSE,
             coords |-> <<[shape |-> <<Len(x)>>, bounds |-> xb],
                          [shape |-> <<Len(y)>>, bounds |-> Some(y)]>>,
             use_bounds |-> u,
             mask |-> None,
             cyclic |-> c,
             coords_2D |-> FALSE,
             coord_order |-> None] :
                xb \in {None, Some(x)}, y \in LatBoundsArrays,
                u \in BOOLEAN, c \in {None, Some(FALSE), Some(TRUE)}} :
           x \in BoundsArrays}

\* The arguments of create_Grid for 2-d longitude and latitude.
GridArgs2D ==
    UNION {{[cartesian |-> FALSE,
             coords |-> <<[shape |-> <<Len(x), Len(x[1])>>,
                           bounds |-> Some(x)],
                          [shape |-> s, bounds |-> Some(LatBounds2D(x))]>>,
             use_bounds |-> u,
             mask |-> None,
             cyclic |-> c,
             coords_2D |-> TRUE,
             coord_order |-> <<o, o>>] :
                s \in {<<Len(x), Len(x[1])>>, <<1, 3>>},
                u \in BOOLEAN, c \in {Some(FALSE), Some(TRUE)},
                o \in {<<0, 1>>, <<1, 0>>}} :
           x \in BoundsArrays2D}

\* The lists of up to four Cartesian coordinates, with or without bounds.
CartesianCoords ==
    LET Coordinates ==
            UNION {{[shape |-> <<size>>, bounds |-> b] :
                       b \in {None, Some(UnitCells(size, 10))}} :
                   size \in Sizes}
    IN  UNION {[1..n -> Coordinates] : n \in 0..4}

\* A mask over the cells of the coordinates: None, nothing masked, or the
\* first cell masked.
CartesianMasks(coords) ==
    LET shape == [d \in DOMAIN coords |-> coords[d].shape[1]] IN
    {None, Some([shape |-> shape, masked |-> {}]),
     Some([shape |-> shape, masked |-> {[d \in DOMAIN coords |-> 1]}])}

\* The arguments of create_Grid for Cartesian coordinates: the coordinates
\* all have bounds or all have none.
GridArgsCartesian ==
    UNION {{[cartesian |-> TRUE,
             coords |-> c,
             use_bounds |-> u,
             mask |-> m,
             cyclic |-> Some(FALSE),
             coords_2D |-> FALSE,
             coord_order |-> None] :
                u \in BOOLEAN, m \in CartesianMasks(c)} :
           c \in {cc \in CartesianCoords :
                     \A d1, d2 \in DOMAIN cc :
                         (cc[d1].bounds = None) = (cc[d2].bounds = None)}}

InitCreateGrid ==
    /\ op = "create_Grid"
    /\ InitIdle
    /\ NoUM
    /\ \/ args \in GridArgs1D
       \/ args \in GridArgs2D
       \/ args \in GridArgsCartesian
    /\ result = None

CallCreateGrid ==
    /\ op = "create_Grid"
    /\ pc = "start"
    /\ LET r == create_Grid(args.coords, args.use_bounds, args.mask,
                            args.cartesian, args.cyclic, args.coords_2D,
                            args.coord_order)
       IN  /\ raised' = r.raised
           /\ result' = r.grid
    /\ pc' = Exit(raised')
    /\ handles' = IF raised' = "none" THEN handles \cup {"grid"} ELSE handles
    /\ UNCHANGED <<op, method, use_src_mask, manager, acquired, grid_vars,
                   section_vars, compat_vars, operator_vars, f,
                   propagate_args, latlon_vars, um_vars, args>>

\* The arguments of create_Cartesian_ESMF_grid: dictionaries of one to
\* three coordinates and of their bounds.
InitCreateCartesianGrid ==
    /\ op = "create_Cartesian_ESMF_grid"
    /\ InitIdle
    /\ NoUM
    /\ \E a \in GridArgsCartesian :
          /\ Len(a.coords) \in 1..3
          /\ a.use_bounds = (a.coords[1].bounds # None)
          /\ args = [coords |-> a.coords,
                     bounds |-> IF a.use_bounds
                                THEN [d \in DOMAIN a.coords |->
                                         a.coords[d].bounds[1]]
                                ELSE <<>>,
                     mask |-> a.mask]
    /\ result = None

CallCreateCartesianGrid ==
    /\ op = "create_Cartesian_ESMF_grid"
    /\ pc = "start"
    /\ LET r == create_Cartesian_ESMF_grid(args.coords, args.bounds, args.mask)
       IN  /\ raised' = r.raised
           /\ result' = r.grid
    /\ pc' = Exit(raised')
    /\ UNCHANGED <<op, method, use_src_mask, solver_vars, grid_vars,
                   section_vars, compat_vars, operator_vars, f,
                   propagate_args, latlon_vars, um_vars, args>>

(***************************************************************************)
(* The positions of the regridding axes in a field's data.  The field is   *)
(* its data axes, a sequence of distinct domain axis keys; positions are   *)
(* counted from 0 as in the code.                                          *)
(***************************************************************************)

\* order[tmp] = np.arange(n) with tmp = argsort(axis_indices): the rank of
\* each position (equal positions keep their order).
rank_order(axis_indices) ==
    [i \in DOMAIN axis_indices |->
        Cardinality({j \in DOMAIN axis_indices :
                        \/ axis_indices[j] < axis_indices[i]
                        \/ axis_indices[j] = axis_indices[i] /\ j < i})]

\* f.insert_dimension(key, position=0, inplace=True), for every key.
RECURSIVE insert_dimensions(_, _)
insert_dimensions(data_axes, keys) ==
    IF keys = <<>>
    THEN data_axes
    ELSE insert_dimensions(<<Head(keys)>> \o data_axes, Tail(keys))

\* regrid_get_axis_indices(f, axis_keys, spherical=False): a regridding
\* axis that the data does not span is inserted as `axis_key`, a name that
\* is not bound.
regrid_get_axis_indices(data_axes, axis_keys) ==
    IF \E n \in DOMAIN axis_keys : axis_keys[n] \notin Range(data_axes)
    THEN [raised |-> "NameError", data_axes |-> data_axes,
          axis_indices |-> None, order |-> None]
    ELSE LET axis_indices == [n \in DOMAIN axis_keys |->
                                 Index(data_axes, axis_keys[n])[1]]
         IN  [raised |-> "none", data_axes |-> data_axes,
              axis_indices |-> axis_indices,
              order |-> rank_order(axis_indices)]

\* The regrid_get_axis_indices(f, axis_keys) of the "OLD" part of the
\* module: the positions are looked up in the data axes as they were at the
\* start, and an axis that is not found is inserted at position 0.
regrid_get_axis_indices_OLD(data_axes, axis_keys) ==
    LET axis_indices == [n \in DOMAIN axis_keys |->
                            IF Index(data_axes, axis_keys[n]) = None
                            THEN 0
                            ELSE Index(data_axes, axis_keys[n])[1]]
        missing == SelectSeq(axis_keys, LAMBDA k : k \notin Range(data_axes))
    IN  [raised |-> "none",
         data_axes |-> insert_dimensions(data_axes, missing),
         axis_indices |-> axis_indices,
         order |-> rank_order(axis_indices)]

\* The sequences of distinct elements of S.
Arrangements(S) ==
    UNION {{s \in [1..n -> S] : \A i, j \in 1..n : s[i] = s[j] => i = j} :
           n \in 0..Cardinality(S)}

\* The fields' data axes and the keys of the regridding axes.
DataAxes == Arrangements({"x", "y", "z", "t"})

AxisKeys == Arrangements({"x", "y", "z"}) \ {<<>>}

InitGetAxisIndices ==
    /\ op \in {"regrid_get_axis_indices", "regrid_get_axis_indices (OLD)"}
    /\ InitIdle
    /\ NoUM
    /\ args \in [data_axes : DataAxes, axis_keys : AxisKeys]
    /\ result = None

CallGetAxisIndices ==
    /\ op = "regrid_get_axis_indices"
    /\ pc = "start"
    /\ LET r == regrid_get_axis_indices(args.data_axes, args.axis_keys) IN
          /\ raised' = r.raised
          /\ result' = Some(r)
    /\ pc' = Exit(raised')
    /\ UNCHANGED <<op, method, use_src_mask, solver_vars, grid_vars,
                   section_vars, compat_vars, operator_vars, f,
                   propagate_args, latlon_vars, um_vars, args>>

CallGetAxisIndicesOLD ==
    /\ op = "regrid_get_axis_indices (OLD)"
    /\ pc = "start"
    /\ LET r == regrid_get_axis_indices_OLD(args.data_axes, args.axis_keys) IN
          /\ raised' = r.raised
          /\ result' = Some(r)
    /\ pc' = Exit(raised')
    /\ UNCHANGED <<op, method, use_src_mask, solver_vars, grid_vars,
                   section_vars, compat_vars, operator_vars, f,
                   propagate_args, latlon_vars, um_vars, args>>

(***************************************************************************)
(* The mask of the destination field.  An array is [shape, mask]: its      *)
(* shape and its boolean elements, one for each index (a sequence of       *)
(* 0-based positions, one for each dimension).                             *)
(***************************************************************************)

DimSize == 2

\* The indices of an array of the given shape.
Indices(shape) ==
    {index \in [DOMAIN shape -> 0..(DimSize - 1)] :
        \A d \in DOMAIN shape : index[d] < shape[d]}

\* The elements of the set of numbers S in ascending order.
Sorted(S) ==
    [k \in 1..Cardinality(S) |->
        CHOOSE x \in S : Cardinality({y \in S : y < x}) = k - 1]

\* np.argsort(seq), 0-based
argsort(seq) ==
    [k \in DOMAIN seq |->
        (CHOOSE i \in DOMAIN seq : rank_order(seq)[i] = k - 1) - 1]

\* a[tuple(index)] with index[i] = slice(None) for the dimensions i in
\* `kept` and 0 for the others.
index_0(a, kept) ==
    LET pos == Sorted(kept)
        shape == [k \in DOMAIN pos |-> a.shape[pos[k] + 1]]
    IN  [shape |-> shape,
         mask |-> [r \in Indices(shape) |->
                      a.mask[[d \in DOMAIN a.shape |->
                                 IF d - 1 \in kept
                                 THEN r[CHOOSE k \in DOMAIN pos :
                                            pos[k] = d - 1]
                                 ELSE 0]]]]

\* transpose(a, axes): dimension k of the result is dimension axes[k] of a.
transpose_axes(a, axes) ==
    LET shape == [k \in DOMAIN axes |-> a.shape[axes[k] + 1]] IN
    [shape |-> shape,
     mask |-> [r \in Indices(shape) |->
                  a.mask[[d \in DOMAIN a.shape |->
                             r[CHOOSE k \in DOMAIN axes : axes[k] = d - 1]]]]]

\* regrid_get_destination_mask(f, dst_axes, dst_order, src_order): the
\* mask is taken with `da`, a name that the module does not bind.
regrid_get_destination_mask(a, dst_axes) ==
    LET index == [i \in DOMAIN a.shape |->
                     IF i - 1 \in Range(dst_axes) THEN "slice(None)"
                                                  ELSE "0"]
    IN  [raised |-> "NameError", dst_mask |-> None]

\* The regrid_get_destination_mask(f, dst_order, axes) of the "OLD" part
\* of the module, for spherical regridding: the subspace at index 0 of the
\* axes not in `axes`, squeezed and transposed to dst_order.
regrid_get_destination_mask_OLD(a, dst_order, axes) ==
    [raised |-> "none",
     dst_mask |-> Some(transpose_axes(index_0(a, axes), dst_order))]

\* The masks of fields of two to four dimensions: nothing masked, or one
\* element masked.
FieldMasks ==
    UNION {LET shape == [d \in 1..ndim |-> DimSize] IN
           {[shape |-> shape, mask |-> [i \in Indices(shape) |-> FALSE]]}
           \cup {[shape |-> shape,
                  mask |-> [i \in Indices(shape) |-> i = masked]] :
                    masked \in Indices(shape)} :
           ndim \in 2..4}

\* The lists of 2 or 3 distinct positions of regridding axes.
DstAxes ==
    {s \in Arrangements(0..3) : Len(s) \in {2, 3}}

InitGetDestinationMask ==
    /\ op \in {"regrid_get_destination_mask",
               "regrid_get_destination_mask (OLD)"}
    /\ InitIdle
    /\ NoUM
    /\ \E a \in FieldMasks, dst_axes \in DstAxes :
          /\ \A n \in DOMAIN dst_axes : dst_axes[n] < Len(a.shape)
          /\ args = [f |-> a,
                     dst_axes |-> dst_axes,
                     dst_order |-> [n \in DOMAIN dst_axes |->
                                       rank_order(dst_axes)[n]]]
    /\ result = None

CallGetDestinationMask ==
    /\ op = "regrid_get_destination_mask"
    /\ pc = "start"
    /\ LET r == regrid_get_destination_mask(args.f, args.dst_axes) IN
          /\ raised' = r.raised
          /\ result' = r.dst_mask
    /\ pc' = Exit(raised')
    /\ UNCHANGED <<op, method, use_src_mask, solver_vars, grid_vars,
                   section_vars, compat_vars, operator_vars, f,
                   propagate_args, latlon_vars, um_vars, args>>

CallGetDestinationMaskOLD ==
    /\ op = "regrid_get_destination_mask (OLD)"
    /\ pc = "start"
    /\ LET r == regrid_get_destination_mask_OLD(args.f, args.dst_order,
                                                Range(args.dst_axes))
       IN  /\ raised' = r.raised
           /\ result' = r.dst_mask
    /\ pc' = Exit(raised')
    /\ UNCHANGED <<op, method, use_src_mask, solver_vars, grid_vars,
                   section_vars, compat_vars, operator_vars, f,
                   propagate_args, latlon_vars, um_vars, args>>

(***************************************************************************)
(* The sections of the source data and the order of looping over them.    *)
(* A section key has, for each dimension of the data, None for a           *)
(* regridding axis and Some(index of the section) for any other axis.      *)
(***************************************************************************)

\* Data.section(axes): the keys of the sections, in the order in which
\* the dictionary holds them (the last axis varies fastest).
section(shape, axes) ==
    LET other == Sorted({d - 1 : d \in DOMAIN shape} \ Range(axes))
        m == Len(other)
        stride(p) == DimSize ^ (m - p)
    IN  [n \in 1..(DimSize ^ m) |->
            [d \in DOMAIN shape |->
                IF d - 1 \in Range(axes)
                THEN None
                ELSE LET p == CHOOSE q \in DOMAIN other : other[q] = d - 1
                     IN  Some(((n - 1) \div stride(p)) % shape[d])]]

\* a < b for sequences of indices of the same length, as Python compares
\* tuples
tuple_less(a, b) ==
    \E k \in DOMAIN a :
        /\ a[k][1] < b[k][1]
        /\ \A j \in 1..(k - 1) : a[j] = b[j]

\* itemgetter(*items)(key), as a sequence
itemgetter(items, key) == [k \in DOMAIN items |-> key[items[k] + 1]]

\* sorted(keys, key=itemgetter(*items)): a stable sort
sorted(keys, items) ==
    LET before(i, j) ==
            \/ tuple_less(itemgetter(items, keys[i]),
                          itemgetter(items, keys[j]))
            \/ /\ itemgetter(items, keys[i]) = itemgetter(items, keys[j])
               /\ i < j
        place(i) == Cardinality({j \in DOMAIN keys : before(j, i)}) + 1
    IN  [n \in DOMAIN keys |-> keys[CHOOSE i \in DOMAIN keys : place(i) = n]]

\* source.dimension_coordinate(filter_by_axis=(axis,), default=None, key=True)
dimension_coordinate(source, axis) ==
    IF axis \in source.dimension_coordinates THEN Some(axis) ELSE None

\* The indices of the data axes named by axis_order, or the error of the
\* first entry that is a regridding axis or is not found.
RECURSIVE loop_axis_indices(_, _, _, _)
loop_axis_indices(source, axis_order, regrid_axes, axis_indices) ==
    IF axis_order = <<>>
    THEN [raised |-> "none", message |-> "", axis_indices |-> axis_indices]
    ELSE LET axis_key == dimension_coordinate(source, Head(axis_order)) IN
         IF axis_key = None
         THEN [raised |-> "ValueError",
               message |-> "Source field axis not found",
               axis_indices |-> axis_indices]
         ELSE IF axis_key[1] \in Range(regrid_axes)
         THEN [raised |-> "ValueError",
               message |-> "Cannot loop over regridding axes.",
               axis_indices |-> axis_indices]
         ELSE loop_axis_indices(
                  source, Tail(axis_order), regrid_axes,
                  IF axis_key[1] \in Range(source.data_axes)
                  THEN Append(axis_indices,
                              Index(source.data_axes, axis_key[1])[1])
                  ELSE axis_indices)

\* regrid_get_reordered_sections without the reordering
regrid_get_reordered_sections_unordered(source, axis_order, regrid_axes, regrid_axis_indices) ==
    LET loop == IF axis_order = None
                THEN [raised |-> "none", message |-> "",
                      axis_indices |-> <<>>]
                ELSE loop_axis_indices(source, axis_order[1], regrid_axes,
                                       <<>>)
        sections == section(source.shape, regrid_axis_indices)
    IN  IF loop.raised # "none"
        THEN [raised |-> loop.raised, message |-> loop.message,
              value |-> None]
        ELSE [raised |-> "none", message |-> "",
              value |-> Some([section_keys |-> sections,
                              sections |-> sections])]

\* regrid_get_reordered_sections(source, axis_order, regrid_axes,
\* regrid_axis_indices)
regrid_get_reordered_sections(source, axis_order, regrid_axes, regrid_axis_indices) ==
    LET loop == IF axis_order = None
                THEN [raised |-> "none", message |-> "",
                      axis_indices |-> <<>>]
                ELSE loop_axis_indices(source, axis_order[1], regrid_axes,
                                       <<>>)
        sections == section(source.shape, regrid_axis_indices)
    IN  IF loop.raised # "none"
        THEN [raised |-> loop.raised, message |-> loop.message,
              value |-> None]
        ELSE [raised |-> "none", message |-> "",
              value |-> Some([section_keys |->
                                  IF loop.axis_indices # <<>>
                                  THEN sorted(sections, loop.axis_indices)
                                  ELSE sections,
                              sections |-> sections])]

\* The regridding axes of the source fields.
RegridAxes == <<"y", "x">>

\* The source fields: the regridding axes and up to two more axes span
\* the data; "z" and "t" have dimension coordinates whether they span the
\* data or not, and "s" has none.
SectionFields ==
    {[data_axes |-> data_axes,
      shape |-> [d \in DOMAIN data_axes |-> DimSize],
      dimension_coordinates |-> {"x", "y", "z", "t"}] :
        data_axes \in {s \in DataAxes : Range(RegridAxes) \subseteq Range(s)}}

\* The axis_order arguments.
AxisOrders ==
    {None} \cup {Some(s) : s \in Arrangements({"z", "t", "x", "s"})}

InitGetReorderedSections ==
    /\ op = "regrid_get_reordered_sections"
    /\ InitIdle
    /\ NoUM
    /\ \E source \in SectionFields, axis_order \in AxisOrders :
          args = [src |-> source,
                  axis_order |-> axis_order,
                  regrid_axes |-> RegridAxes,
                  regrid_axis_indices |->
                      [k \in DOMAIN RegridAxes |->
                          Index(source.data_axes, RegridAxes[k])[1]]]
    /\ result = None

CallGetReorderedSections ==
    /\ op = "regrid_get_reordered_sections"
    /\ pc = "start"
    /\ LET r == regrid_get_reordered_sections(
                    args.src, args.axis_order, args.regrid_axes,
                    args.regrid_axis_indices)
       IN  /\ raised' = r.raised
           /\ result' = r.value
    /\ pc' = Exit(raised')
    /\ UNCHANGED <<op, method, use_src_mask, solver_vars, grid_vars,
                   section_vars, compat_vars, operator_vars, f,
                   propagate_args, latlon_vars, um_vars, args>>

(***************************************************************************)
(* Assignment to the elements of an array by condition.  An array is      *)
(* [isMA, data, mask, hardmask]: whether it is a masked array, its         *)
(* elements, which of them are masked, and whether its mask is hard; an    *)
(* array that is not a masked array has no masked element and no hard      *)
(* mask.                                                                   *)
(***************************************************************************)

ArraySize == 1

\* numpy.ndarray objects with the elements `data`
ndarray(data) ==
    [isMA |-> FALSE, data |-> data, mask |-> [i \in DOMAIN data |-> FALSE],
     hardmask |-> FALSE]

\* np.ma.where(c, x, y) for a condition c without mask: a new masked
\* array with the elements, and their masks, of x where c is True and of
\* y elsewhere
ma_where(c, x, y) ==
    [isMA |-> TRUE,
     data |-> [i \in DOMAIN c |-> IF c[i] THEN x.data[i] ELSE y.data[i]],
     mask |-> [i \in DOMAIN c |-> IF c[i] THEN x.mask[i] ELSE y.mask[i]],
     hardmask |-> FALSE]

\* np.where(c, x, y) for arrays none of which is masked
np_where(c, x, y) ==
    ndarray([i \in DOMAIN c |-> IF c[i] THEN x.data[i] ELSE y.data[i]])

\* condition.filled(fill_value)
filled(condition, value) ==
    [i \in DOMAIN condition.data |->
        IF condition.mask[i] THEN value ELSE condition.data[i]]

\* cf_where without the mask of the input array put back
cf_where_unmasking(array, condition, x, y, hardmask) ==
    LET masked_where == array.isMA \/ (x # None /\ x[1].isMA)
                                   \/ (y # None /\ y[1].isMA)
        where(c, p, q) == IF masked_where THEN ma_where(c, p, q)
                                          ELSE np_where(c, p, q)
        hard == hardmask /\ masked_where
        cx == IF condition.isMA THEN filled(condition, FALSE)
                                 ELSE condition.data
        cy == IF condition.isMA THEN filled(condition, TRUE)
                                 ELSE condition.data
        array1 == IF x # None THEN where(cx, x[1], array) ELSE array
        array2 == IF y # None THEN where(cy, array1, y[1]) ELSE array1
        array4 == IF hard THEN [array2 EXCEPT !.hardmask = TRUE] ELSE array2
    IN  [array |-> array4,
         input |-> IF x = None /\ y = None THEN array4 ELSE array]

\* cf_where(array, condition, x, y, hardmask): the returned array, and
\* the input array after the call.  When x and y are both None the
\* returned array is the input array itself.
cf_where(array, condition, x, y, hardmask) ==
    LET masked_where == array.isMA \/ (x # None /\ x[1].isMA)
                                   \/ (y # None /\ y[1].isMA)
        where(c, p, q) == IF masked_where THEN ma_where(c, p, q)
                                          ELSE np_where(c, p, q)
        mask == IF array.isMA /\ hardmask THEN Some(array.mask) ELSE None
        hard == hardmask /\ masked_where
        cx == IF condition.isMA THEN filled(condition, FALSE)
                                 ELSE condition.data
        cy == IF condition.isMA THEN filled(condition, TRUE)
                                 ELSE condition.data
        array1 == IF x # None THEN where(cx, x[1], array) ELSE array
        array2 == IF y # None THEN where(cy, array1, y[1]) ELSE array1
        array3 == IF hard /\ mask # None
                          /\ (\E i \in DOMAIN mask[1] : mask[1][i])
                  THEN [array2 EXCEPT !.mask =
                           [i \in DOMAIN @ |-> @[i] \/ mask[1][i]]]
                  ELSE array2
        array4 == IF hard THEN [array3 EXCEPT !.hardmask = TRUE] ELSE array3
    IN  [array |-> array4,
         input |-> IF x = None /\ y = None THEN array4 ELSE array]

\* The arrays with elements of the given value: numpy arrays, and masked
\* arrays with every mask and either hardness.
NumpyArrays(value) ==
    LET data == [i \in 1..ArraySize |-> value] IN
    {ndarray(data)}
    \cup {[isMA |-> TRUE, data |-> data, mask |-> mask, hardmask |-> hard] :
             mask \in [1..ArraySize -> BOOLEAN], hard \in BOOLEAN}

\* The conditions: boolean arrays, masked or not.
Conditions ==
    {ndarray(data) : data \in [1..ArraySize -> BOOLEAN]}
    \cup {[isMA |-> TRUE, data |-> data, mask |-> mask, hardmask |-> FALSE] :
             data \in [1..ArraySize -> BOOLEAN],
             mask \in [1..ArraySize -> BOOLEAN]}

\* The arguments x and y: None or an array with a soft mask, if any.
Assigned(value) ==
    {None} \cup {Some(a) : a \in {b \in NumpyArrays(value) : ~b.hardmask}}

InitWhere ==
    /\ op = "cf_where"
    /\ InitIdle
    /\ NoUM
    /\ \E array \in NumpyArrays("array"), condition \in Conditions,
          x \in Assigned("x"), y \in Assigned("y"), hardmask \in BOOLEAN :
          args = [array |-> array, condition |-> condition, x |-> x,
                  y |-> y, hardmask |-> hardmask]
    /\ result = None

CallWhere ==
    /\ op = "cf_where"
    /\ pc = "start"
    /\ result' = Some(cf_where(args.array, args.condition, args.x, args.y,
                               args.hardmask))
    /\ raised' = "none"
    /\ pc' = Exit(raised')
    /\ UNCHANGED <<op, method, use_src_mask, solver_vars, grid_vars,
                   section_vars, compat_vars, operator_vars, f,
                   propagate_args, latlon_vars, um_vars, args>>

(***************************************************************************)
(* The regridding of a domain ancillary inside the regridding of a field. *)
(* regrid_update_non_coordinates converts the construct to a field and     *)
(* regrids that field, which runs regrid_update_non_coordinates on it in   *)
(* turn.  The calls in flight are a stack of frames [field, pending]: the  *)
(* field being regridded and whether its regrid_update_non_coordinates     *)
(* has yet to look for domain ancillaries.                                 *)
(***************************************************************************)

MaxDepth == 3

\* f.convert(key): a field with the data of construct `key` and the
\* domain of f, that is all of its constructs but the field ancillaries.
convert(fld, key) ==
    del_constructs(fld, ConstructsOfType(fld, {"field_ancillary"}))

\* The loop over the constructs of da_field left out.
strip_non_coordinates_nothing(da_field) == da_field

\* da_field.del_construct(key) for every coordinate reference, domain
\* ancillary and cell measure of da_field
strip_non_coordinates(da_field) ==
    [del_constructs(da_field,
                    ConstructsOfType(da_field,
                                     {"domain_ancillary", "cell_measure"}))
        EXCEPT !.refs = <<>>]

\* regrid_update_non_coordinates up to the regridding of the field made
\* for a domain ancillary: that field (None if no domain ancillary is
\* left to regrid) and the exception, if any.  `key` is as for
\* regrid_update_non_coordinates.
domain_ancillary_field(fld, sak, key) ==
    LET data_axes == [k \in DOMAIN fld.constructs |-> fld.constructs[k].axes]
        f1 == del_coordinate_references(
                  fld,
                  {r \in DOMAIN fld.refs :
                      \E c \in fld.refs[r].coordinates :
                          intersects(data_axes[c], sak)})
        f2 == del_constructs(
                  f1,
                  {k \in ConstructsOfType(f1, {"cell_measure", "field_ancillary"}) :
                      intersects(data_axes[k], sak)})
        das == ConstructsOfType(f2, {"domain_ancillary"})
        spanning == {k \in das : Range(sak) \subseteq Range(data_axes[k])}
        f3 == del_constructs(f2, das \ spanning)
    IN  IF spanning = {}
        THEN [raised |-> "none", da_field |-> None]
        ELSE IF key = None
        THEN [raised |-> "UnboundLocalError", da_field |-> None]
        ELSE IF key[1] \notin DOMAIN f3.constructs
        THEN [raised |-> "ValueError", da_field |-> None]
        ELSE [raised |-> "none",
              da_field |-> Some(strip_non_coordinates(convert(f3, key[1])))]

\* The values that the loop over the cell measures and field ancillaries
\* of fld may leave in `key`.
LoopKeys(fld) ==
    LET keys == ConstructsOfType(fld, {"cell_measure", "field_ancillary"})
    IN  IF keys = {} THEN {None} ELSE {Some(k) : k \in keys}

InitRegridDomainAncillaries ==
    /\ op = "regrid_update_non_coordinates (domain ancillaries)"
    /\ pc = "start"
    /\ raised = "none"
    /\ method = "linear"
    /\ use_src_mask = TRUE
    /\ manager = TRUE
    /\ handles = {"regrid", "src_field", "dst_field"}
    /\ acquired = {}
    /\ operator_method = None
    /\ NoLatLon
    /\ NoUM
    /\ NoGrid
    /\ NoSection
    /\ NoCompat
    /\ InitAxes
    /\ \E cm \in {None, Some(<<"x", "y">>), Some(<<"z">>), Some(<<"y", "z">>)},
          fa \in {None, Some(<<"y">>), Some(<<"z">>)},
          da \in {None, Some(<<"x", "y">>), Some(<<"z", "y", "x">>),
                  Some(<<"z">>), Some(<<"x">>)} :
          \E ref \in SrcRefs(None, da) :
              src = SrcField(None, cm, fa, da, ref)
    /\ f = src
    /\ \E ref \in DstRefs :
          operator = [method |-> "linear", dst |-> DstField(None, ref)]
    /\ dst = None
    /\ \E key \in LoopKeys(f) : args = [key |-> key, stack |-> <<>>]
    /\ result = None

\* regrid_update_non_coordinates up to the call of da_field.regrids or
\* da_field.regridc, or to its end if it does not get there.
CallConvertDomainAncillary ==
    /\ op = "regrid_update_non_coordinates (domain ancillaries)"
    /\ pc = "start"
    /\ LET r == domain_ancillary_field(f, src_axis_keys, args.key)
           end == regrid_update_non_coordinates(
                      f, operator, src_axis_keys, dst_axis_keys,
                      dst_axis_sizes, Cartesian, args.key, FALSE)
       IN  IF r.da_field = None
           THEN /\ f' = end.f
                /\ operator' = [operator EXCEPT !.dst = end.dst]
                /\ raised' = end.raised
                /\ pc' = Exit(raised')
                /\ args' = args
           ELSE /\ args' = [args EXCEPT
                               !.stack = <<[field |-> r.da_field[1],
                                            pending |-> TRUE]>>]
                /\ pc' = "regridding"
                /\ UNCHANGED <<f, operator, raised>>
    /\ UNCHANGED <<op, method, use_src_mask, solver_vars, grid_vars,
                   section_vars, compat_vars, operator_method,
                   propagate_args, latlon_vars, um_vars, result>>

\* A step of the innermost da_field.regrids(operator, ...) in flight:
\* its regrid_update_non_coordinates either converts a domain ancillary
\* of da_field and regrids that, or ends; `fail` says whether the
\* regridding of da_field raises ValueError.
RegridDomainAncillaryField ==
    /\ op = "regrid_update_non_coordinates (domain ancillaries)"
    /\ pc = "regridding"
    /\ \E fail \in BOOLEAN :
       LET depth == Len(args.stack)
           top == args.stack[depth]
           end(fails) == regrid_update_non_coordinates(
                             f, operator, src_axis_keys, dst_axis_keys,
                             dst_axis_sizes, Cartesian, args.key, fails)
       IN  \E key \in LoopKeys(top.field) :
           LET r == IF top.pending
                    THEN domain_ancillary_field(top.field, src_axis_keys, key)
                    ELSE [raised |-> "none", da_field |-> None]
               exc == IF r.raised # "none" THEN r.raised
                      ELSE IF fail THEN "ValueError" ELSE "none"
           IN  IF r.da_field # None
               THEN /\ depth < MaxDepth
                    /\ args' = [args EXCEPT
                                   !.stack =
                                       Append([@ EXCEPT ![depth].pending = FALSE],
                                              [field |-> r.da_field[1],
                                               pending |-> TRUE])]
                    /\ UNCHANGED <<f, operator, raised, pc>>
               ELSE IF exc # "none"
               THEN /\ args' = [args EXCEPT !.stack = <<>>]
                    /\ f' = end(TRUE).f
                    /\ operator' = [operator EXCEPT !.dst = end(TRUE).dst]
                    /\ raised' = exc
                    /\ pc' = "raised"
               ELSE IF depth > 1
               THEN /\ args' = [args EXCEPT !.stack = SubSeq(@, 1, depth - 1)]
                    /\ UNCHANGED <<f, operator, raised, pc>>
               ELSE /\ args' = [args EXCEPT !.stack = <<>>]
                    /\ f' = end(FALSE).f
                    /\ operator' = [operator EXCEPT !.dst = end(FALSE).dst]
                    /\ raised' = end(FALSE).raised
                    /\ pc' = Exit(raised')
    /\ UNCHANGED <<op, method, use_src_mask, solver_vars, grid_vars,
                   section_vars, compat_vars, operator_method,
                   propagate_args, latlon_vars, um_vars, result>>

Init ==
    \/ InitCheck
    \/ InitSolver
    \/ InitContiguous
    \/ InitSpherical
    \/ InitSection
    \/ InitCompat
    \/ InitOperatorMethod
    \/ InitUpdateNonCoordinates
    \/ InitCopyCoordinateReferences
    \/ InitUpdateCoordinates
    \/ InitGetLatLonField
    \/ InitGetLatLonDict
    \/ InitGetLatLon
    \/ InitStash
    \/ InitCreateGrid
    \/ InitCreateCartesianGrid
    \/ InitGetAxisIndices
    \/ InitGetDestinationMask
    \/ InitGetReorderedSections
    \/ InitWhere
    \/ InitRegridDomainAncillaries

Next ==
    \/ CallCheckMethod
    \/ CallCheckUseSrcMask
    \/ CallCreateWeights
    \/ CallCreateRegrid
    \/ CallContiguousBounds
    \/ CallCreateSphericalGrid
    \/ CallFillFields
    \/ CallRunRegrid
    \/ CallComputeFieldMass
    \/ CallGetRegriddedData
    \/ CallIsCompatible
    \/ CallCheckSourceGrid
    \/ CallGetOperatorMethod
    \/ CallUpdateNonCoordinates
    \/ CallCopyCoordinateReferences
    \/ CallUpdateCoordinates
    \/ CallGetLatLonField
    \/ CallGetLatLonDict
    \/ CallGetLatLon
    \/ CallLoadStash
    \/ CallRead
    \/ CallCreateGrid
    \/ CallCreateCartesianGrid
    \/ CallGetAxisIndices
    \/ CallGetAxisIndicesOLD
    \/ CallGetDestinationMask
    \/ CallGetDestinationMaskOLD
    \/ CallGetReorderedSections
    \/ CallWhere
    \/ CallConvertDomainAncillary
    \/ RegridDomainAncillaryField

Spec == Init /\ [][Next]_vars

(***************************************************************************)
(* Properties.                                                             *)
(***************************************************************************)

\* The method catalogue as the specification lists it.
MethodCatalogue ==
    {"linear", "bilinear", "conservative", "conservative_1st",
     "conservative_2nd", "patch", "nearest_stod", "nearest_dtos"}

Returned == pc = "done" /\ raised = "none"

\* C1: regrid_check_method raises for every method string outside the
\* catalogue and returns without error for each of the eight catalogue
\* strings, 'bilinear' included.
C1_CheckMethod ==
    (op = "regrid_check_method" /\ pc # "start") =>
        /\ (method \notin MethodCatalogue) => (pc = "raised" /\ raised = "ValueError")
        /\ (method \in MethodCatalogue) => Returned

C1_Witness ==
    op = "regrid_check_method" /\ method = "bilinear" /\ Returned

\* C2: regrid_check_use_src_mask raises if and only if use_src_mask is False
\* and the method is not 'nearest_stod'.
C2_CheckUseSrcMask ==
    (op = "regrid_check_use_src_mask" /\ pc # "start") =>
        /\ (pc = "raised") <=> ((~use_src_mask) /\ method # "nearest_stod")
        /\ (pc = "raised") => raised = "ValueError"
        /\ (pc = "done") => raised = "none"

C2_Witness ==
    /\ op = "regrid_check_use_src_mask"
    /\ ~use_src_mask
    /\ method = "nearest_stod"
    /\ Returned

C4_HandlesReleased ==
    pc \in {"done", "raised"} => acquired \cap handles = {}

\* d is a whole number of periods.
WholePeriods(d) == \E q \in (0 - MaxK)..MaxK : d = q * Period

\* Cells k and k+1 of bounds array b share their edge (modulo the period on
\* a cyclic axis).
SharedEdge(b, k) ==
    IF cyclic = Some(TRUE) /\ period # None
    THEN WholePeriods(b[k][2] - b[k + 1][1])
    ELSE b[k][2] = b[k + 1][1]

\* C5: the contiguity check on 1-d cell bounds returns True exactly when,
\* for every pair of adjacent cells k and k+1, the upper bound of cell k
\* equals the lower bound of cell k+1 (modulo the period when the axis is
\* cyclic); empty bounds give True.
C5_Contiguous ==
    (op = "contiguous_bounds" /\ pc = "done") =>
        /\ contiguous[1] <=>
               \A key \in DOMAIN bounds :
                   \A k \in 1..(Len(bounds[key]) - 1) : SharedEdge(bounds[key], k)
        /\ (DOMAIN bounds = {}) => contiguous[1]

\* Two cells that meet only modulo the period, found contiguous on a cyclic
\* axis.
C5_Witness ==
    /\ op = "contiguous_bounds"
    /\ pc = "done"
    /\ cyclic = Some(TRUE)
    /\ DOMAIN bounds = {"lon"}
    /\ Len(bounds["lon"]) = 2
    /\ bounds["lon"][1][2] # bounds["lon"][2][1]
    /\ contiguous = Some(TRUE)

HasWeights(j) == \E i \in Src : regrid.weights[j][i] # 0

\* The section was regridded and its regridded data fetched.
SectionDone == op = "regrid_section" /\ pc = "done"

\* C7: for a conservative method (regridded data, not the fraction field,
\* asked for) no destination cell is divided by zero, a cell whose
\* destination fraction is not zero gets the solver output divided by that
\* fraction, and a cell whose destination fraction is zero is masked.
C7_DivideByFraction ==
    (SectionDone /\ regridding_is_conservative(method) /\ ~fracfield) =>
        \A j \in Dst :
            /\ regridded_data.data[j][2] # 0
            /\ regrid.dst_frac[j] # 0 =>
                   regridded_data.data[j] = <<dstfield[j], regrid.dst_frac[j]>>
            /\ regrid.dst_frac[j] = 0 => regridded_data.mask[j]

\* A conservative section with one destination cell of fraction zero and
\* another that source cells cover only in part.
C7_Witness ==
    /\ SectionDone
    /\ regridding_is_conservative(method)
    /\ ~fracfield
    /\ \E j, k \in Dst :
          /\ regrid.dst_frac[j] = 0
          /\ regrid.dst_frac[k] \notin {0, One}
          /\ ~regridded_data.mask[k]

\* C8: with use_src_mask=True and the nearest-neighbour method, a
\* destination cell with no unmasked source cell to take from is masked,
\* and a destination cell with an unmasked donor is not masked and has
\* exactly the donor's value.
C8_MaskPropagation ==
    (SectionDone /\ method = "nearest_stod" /\ use_src_mask) =>
        \A j \in Dst :
            /\ (\A i \in Src : src_mask[i]) => regridded_data.mask[j]
            /\ \A i \in Src :
                   regrid.weights[j][i] # 0 =>
                       /\ ~src_mask[i]
                       /\ ~regridded_data.mask[j]
                       /\ regridded_data.data[j] = <<Fix(src_data[i]), One>>

\* C9: for conservative_1st regridding of an unmasked field whose cells all
\* have one value, the mass record has destination mass = source mass.
C9_MassConserved ==
    (/\ op = "regrid_section"
     /\ method = "conservative_1st"
     /\ mass # None
     /\ \A i \in Src : ~src_mask[i] /\ src_data[i] = src_data[1])
        => mass[2] = mass[1]

\* The two grids have the same coordinate values, element by element.
SameCoordinateValues ==
    /\ Len(grid0.coords) = Len(grid1.coords)
    /\ \A s \in 1..Len(grid0.coords) :
          /\ Len(grid0.coords[s]) = Len(grid1.coords[s])
          /\ \A d \in 1..Len(grid0.coords[s]) :
                /\ Len(grid0.coords[s][d]) = Len(grid1.coords[s][d])
                /\ \A k \in 1..Len(grid0.coords[s][d]) :
                      grid0.coords[s][d][k] = grid1.coords[s][d][k]

\* The two grids have the same kind, cyclicity and shape.
SameKindCyclicityShape ==
    /\ grid0.kind = grid1.kind
    /\ grid0.cyclic = grid1.cyclic
    /\ Len(grid0.coords[1]) = Len(grid1.coords[1])
    /\ \A d \in 1..Len(grid0.coords[1]) :
          Len(grid0.coords[1][d]) = Len(grid1.coords[1][d])

C11_CheckSourceGrid ==
    (op = "check_source_grid" /\ pc # "start") =>
        IF grid0.cyclic # grid1.cyclic \/ ~SameCoordinateValues
        THEN pc = "raised" /\ raised = "ValueError"
        ELSE Returned

EquivalentMethods(a, b) ==
    /\ a \in MethodCatalogue
    /\ b \in MethodCatalogue
    /\ \/ a = b
       \/ {a, b} = {"linear", "bilinear"}
       \/ {a, b} = {"conservative", "conservative_1st"}

ConsumesOperator ==
    op \in {"regrid_get_operator_method", "regrid_update_non_coordinates",
            "check_source_grid", "is_compatible"}

SrcConstructs(types) ==
    {k \in DOMAIN src.constructs : src.constructs[k].type \in types}

\* Construct k of the source field spans all of the regridding axes.
SpansRegriddedAxes(k) ==
    \A a \in Range(src_axis_keys) : a \in Range(src.constructs[k].axes)

\* C15: after metadata propagation (unless regridding a domain ancillary
\* failed with a ValueError) every domain ancillary still in the
\* field is its own source construct regridded, on its own axes; one that
\* spans all of the regridding axes (and was not removed with its
\* coordinate reference) is still in the field, one that does not is not.
C15_DomainAncillaries ==
    (op = "regrid_update_non_coordinates" /\ pc # "start"
                                          /\ raised # "ValueError") =>
        \A k \in SrcConstructs({"domain_ancillary"}) :
            /\ k \in DOMAIN f.constructs =>
                   f.constructs[k] =
                       Construct("domain_ancillary", src.constructs[k].axes,
                                 k, "dst")
            /\ ~SpansRegriddedAxes(k) => k \notin DOMAIN f.constructs
            /\ (SpansRegriddedAxes(k) /\ DOMAIN src.refs \subseteq DOMAIN f.refs)
                   => k \in DOMAIN f.constructs

\* The destination whose coordinate references are copied.
CopyDestination ==
    IF op = "regrid_update_non_coordinates" THEN operator.dst ELSE dst

\* C17: a coordinate reference of the destination has been copied into the
\* regridded field if and only if it has at least one coordinate and the
\* axes of all of its coordinates are regridding axes of the destination.
C17_CopiedReferences ==
    (/\ op \in {"regrid_update_non_coordinates",
                "regrid_copy_coordinate_references"}
     /\ Returned) =>
        \A r \in DOMAIN CopyDestination.refs :
            r \in f.copied <=>
                /\ CopyDestination.refs[r].coordinates # {}
                /\ \A c \in CopyDestination.refs[r].coordinates :
                       \A a \in Range(CopyDestination.constructs[c].axes) :
                           \E n \in DOMAIN dst_axis_keys : dst_axis_keys[n] = a

\* A destination coordinate reference on a 2-d auxiliary coordinate of the
\* regridding axes has been copied.
C17_Witness ==
    /\ op = "regrid_copy_coordinate_references"
    /\ Returned
    /\ "ref0" \in f.copied
    /\ dst.refs["ref0"].coordinates = {"aux0"}

\* Construct k of the source field has an axis that is regridded.
OnRegriddedAxis(k) ==
    \E a \in Range(src.constructs[k].axes) :
        \E n \in DOMAIN src_axis_keys : src_axis_keys[n] = a

\* C14: metadata propagation has removed exactly the coordinates, cell
\* measures and field ancillaries with a regridded axis, and exactly the
\* coordinate references with a coordinate that has a regridded axis; the
\* others are still there.
C14_RemovedConstructs ==
    /\ (op = "regrid_update_non_coordinates" /\ pc # "start") =>
           /\ \A k \in SrcConstructs({"cell_measure", "field_ancillary"}) :
                  k \in DOMAIN f.constructs <=> ~OnRegriddedAxis(k)
           /\ \A r \in DOMAIN src.refs :
                  r \in DOMAIN f.refs <=>
                      ~\E c \in src.refs[r].coordinates : OnRegriddedAxis(c)
    /\ (op = "regrid_update_coordinates" /\ pc # "start") =>
           \A k \in SrcConstructs({"dimension_coordinate",
                                   "auxiliary_coordinate"}) :
               k \in DOMAIN f.constructs <=> ~OnRegriddedAxis(k)

\* A cell measure on the regridded axes has been removed while a field
\* ancillary on another axis and a coordinate reference on another axis
\* have been kept.
C14_Witness ==
    /\ op = "regrid_update_non_coordinates"
    /\ pc # "start"
    /\ "cm0" \in DOMAIN src.constructs
    /\ "cm0" \notin DOMAIN f.constructs
    /\ "fa0" \in DOMAIN f.constructs
    /\ "ref0" \in DOMAIN f.refs

\* C16: regrid_update_coordinates returns, and then every regridded axis
\* has the size of its destination axis and carries a destination
\* coordinate.
C16_DestinationCoordinates ==
    (op = "regrid_update_coordinates" /\ pc # "start") =>
        /\ Returned
        /\ \A n \in DOMAIN src_axis_keys :
               /\ f.sizes[src_axis_keys[n]] = dst_axis_sizes[n]
               /\ \E c \in f.inserted : src_axis_keys[n] \in Range(c.axes)

\* The field's coordinates were found and the extraction has ended.
CoordinatesFound ==
    /\ op = "regrid_get_latlon_field"
    /\ pc # "start"
    /\ message # "coordinates not found"

\* A regridding dimension of the field has size 1.
HasSizeOneDimension == coordinates.x_size = 1 \/ coordinates.y_size = 1

\* The extraction failed because of a dimension of size 1.
SizeOneError == raised = "ValueError" /\ message = "size 1"

\* C18 (as stated): coordinate extraction fails with a configuration error
\* because of a size-1 regridding dimension exactly when the role is
\* 'source' and the method is not conservative.
C18_SizeOneNonConservative ==
    CoordinatesFound =>
        (SizeOneError <=> /\ name = "source"
                          /\ ~regridding_is_conservative(method)
                          /\ HasSizeOneDimension)

\* C18 (amended): coordinate extraction fails with a configuration error
\* because of a size-1 regridding dimension exactly when the role is
\* 'source' and the method is linear, bilinear or patch; never for the role
\* 'destination', a conservative method or a nearest-neighbour method.
C18_SizeOneLinearPatch ==
    CoordinatesFound =>
        /\ SizeOneError <=> /\ name = "source"
                            /\ method \in {"linear", "bilinear", "patch"}
                            /\ HasSizeOneDimension
        /\ (\/ name = "destination"
            \/ regridding_is_conservative(method)
            \/ method \in {"nearest_stod", "nearest_dtos"}) => ~SizeOneError

C18_Witness ==
    /\ CoordinatesFound
    /\ SizeOneError
    /\ name = "source"
    /\ method = "patch"
    /\ coordinates.x_size = 1
    /\ coordinates.y_size = 2

\* The keys of the field's coordinates that have bounds.
WithBounds ==
    {k \in {"lon", "lat"} : IF k = "lon" THEN coordinates.lon_bounds
                                         ELSE coordinates.lat_bounds}

\* The coordinates whose bounds are to be fetched.
BoundsWanted ==
    IF regridding_is_conservative(method) THEN {"lon", "lat"}
    ELSE IF cyclic = None /\ coordinates.axes = None /\ coordinates.dim_lonlat
         THEN {"lon"}
         ELSE {}

\* C19: once the coordinates are found and no size-1 dimension is in the
\* way, a conservative method with a coordinate that has no bounds is a
\* configuration error; otherwise the extraction returns, with the bounds
\* of both coordinates for a conservative method, with the longitude
\* bounds (if any) when cyclicity is unspecified and the coordinates are
\* 1-d, and with no bounds otherwise.
C19_BoundsFetched ==
    (CoordinatesFound /\ ~SizeOneError) =>
        IF regridding_is_conservative(method) /\ WithBounds # {"lon", "lat"}
        THEN raised = "ValueError"
        ELSE /\ Returned
             /\ DOMAIN latlon[1].bounds = BoundsWanted \cap WithBounds

\* The dictionary has usable longitude and latitude entries.
ValidDict ==
    /\ coordinates.longitude # None
    /\ coordinates.latitude # None
    /\ LET lon == coordinates.longitude[1]
           lat == coordinates.latitude[1]
       IN  \/ Len(lon) = 1 /\ Len(lat) = 1
           \/ /\ Len(lon) = 2
              /\ lat = lon
              /\ coordinates.axes \in {Some(<<"X", "Y">>), Some(<<"Y", "X">>)}

\* The axis sizes a valid dictionary gives, in the order Y, X.
DictAxisSizes ==
    LET lon == coordinates.longitude[1]
        lat == coordinates.latitude[1]
    IN  IF Len(lon) = 1 THEN <<Size(lat), Size(lon)>>
        ELSE IF coordinates.axes = Some(<<"X", "Y">>)
             THEN Reverse(lon)
             ELSE lon

\* C20: spherical coordinate extraction from a dictionary, for a method
\* that needs no bounds, returns the axis sizes when 'longitude' and
\* 'latitude' are both 1-d, or both 2-d of the same shape with 'axes'
\* ('X', 'Y') or ('Y', 'X'), and is a configuration error otherwise.
C20_DictExtraction ==
    (/\ op \in {"regrid_get_latlon", "regrid_get_latlon_dict"}
     /\ coordinates.type = "dict"
     /\ pc # "start"
     /\ ~regridding_is_conservative(method)) =>
        IF ValidDict
        THEN Returned /\ latlon[1].axis_sizes = DictAxisSizes
        ELSE raised = "ValueError"

\* The arguments of the last load of the table.
LastLoad == loads[Len(loads)]

\* C21: a field read after load_stash2standard_name(table, merge=m) takes
\* its identity and units from the new table, and a field read after a
\* following load_stash2standard_name() has the identity and units of the
\* default table again, however many loads came before.
C21_LoadAndRestore ==
    (op = "load_stash2standard_name" /\ ppfield # None) =>
        IF loads = <<>> \/ LastLoad.table = None
        THEN ppfield.field = Some(DefaultTable[ppfield.file])
        ELSE ppfield.file \in DOMAIN LastLoad.table[1] =>
                 ppfield.field = Some(LastLoad.table[1][ppfield.file])

\* The test's two cycles: the new table loaded with merge=True and then
\* with merge=False, the default restored after each, and the file read.
C21_Witness ==
    /\ op = "load_stash2standard_name"
    /\ Len(loads) = 4
    /\ loads[1].table # None /\ loads[1].merge
    /\ loads[2].table = None
    /\ loads[3].table # None /\ ~loads[3].merge
    /\ loads[4].table = None
    /\ ppfield # None
    /\ ppfield.file = "1!30201"
    /\ ppfield.field = Some([standard_name |-> "eastward_wind",
                             units |-> "m s-1"])

\* A call of create_Grid with bounds to stitch has ended.
StitchedByCreateGrid ==
    /\ op = "create_Grid"
    /\ pc # "start"
    /\ args.use_bounds
    /\ Len(args.coords) \in 1..3
    /\ \A d \in DOMAIN args.coords : args.coords[d].bounds # None

\* corner is the n + 1 corners of the 1-d bounds b: the lower bound of
\* every cell and then the upper bound of the last cell.
AllCorners(corner, b) ==
    /\ Len(corner) = Len(b) + 1
    /\ \A k \in 1..Len(b) : corner[k] = b[k][1]
    /\ corner[Len(b) + 1] = b[Len(b)][2]

\* corner is the n lower bounds of the 1-d bounds b.
LowerCorners(corner, b) ==
    /\ Len(corner) = Len(b)
    /\ \A k \in 1..Len(b) : corner[k] = b[k][1]

\* The corner arrays that create_Grid made are those of C22.
CornersOfCreateGrid ==
    LET g == result[1] IN
    IF args.cartesian
    THEN \A d \in DOMAIN args.coords :
             AllCorners(g.corner[1][Len(g.max_index) - Len(args.coords) + d],
                        args.coords[d].bounds[1])
    ELSE /\ IF g.num_peri_dims = 1
            THEN LowerCorners(g.corner[1][1], args.coords[1].bounds[1])
            ELSE AllCorners(g.corner[1][1], args.coords[1].bounds[1])
         /\ AllCorners(g.corner[1][2], args.coords[2].bounds[1])

\* C22: every grid builder given 1-d bounds returns a grid whose corner
\* array has, for n cells, n + 1 entries on a non-cyclic axis (the lower
\* bound of each cell, then the upper bound of the last cell) and n entries
\* on a cyclic longitude axis (the lower bound of each cell).
C22_CornerArrays ==
    /\ (StitchedByCreateGrid /\ ~args.coords_2D) =>
           (Returned /\ CornersOfCreateGrid)
    /\ (/\ op = "create_spherical_ESMF_grid"
        /\ pc # "start"
        /\ coords_1D
        /\ DOMAIN grid[1].bounds # {}
        /\ contiguous = Some(TRUE)) => Returned
    /\ (/\ op = "create_Cartesian_ESMF_grid"
        /\ pc # "start"
        /\ args.bounds # <<>>) => Returned

\* mesh has a row and a column more than the 2-d bounds b and each cell
\* of b finds its four vertices in it.
ReproducesCells(mesh, b) ==
    /\ Len(mesh) = Len(b) + 1
    /\ \A i \in DOMAIN mesh : Len(mesh[i]) = Len(b[1]) + 1
    /\ \A i \in DOMAIN b : \A j \in DOMAIN b[i] :
           /\ mesh[i][j] = b[i][j][1]
           /\ mesh[i][j + 1] = b[i][j][2]
           /\ mesh[i + 1][j + 1] = b[i][j][3]
           /\ mesh[i + 1][j] = b[i][j][4]

\* C23: every grid builder given 2-d bounds of shape (n, m, 4) that pass
\* the contiguity check returns a grid whose corner mesh has shape
\* (n + 1, m + 1) and holds, for every cell (i, j), the cell's vertices
\* 0, 1, 2, 3 at (i, j), (i, j + 1), (i + 1, j + 1), (i + 1, j).
C23_CornerMesh ==
    /\ (/\ StitchedByCreateGrid
        /\ args.coords_2D
        /\ args.coords[1].shape = args.coords[2].shape
        /\ args.cyclic = Some(FALSE)
        /\ contiguous_2d(args.coords[1].bounds[1], FALSE, Some(Period))) =>
           /\ Returned
           /\ ReproducesCells(transpose(result[1].corner[1][1],
                                        args.coord_order[1]),
                              args.coords[1].bounds[1])
           /\ ReproducesCells(transpose(result[1].corner[1][2],
                                        args.coord_order[2]),
                              args.coords[2].bounds[1])
    /\ (/\ op = "create_spherical_ESMF_grid"
        /\ pc # "start"
        /\ ~coords_1D
        /\ DOMAIN grid[1].bounds # {}
        /\ contiguous = Some(TRUE)) => Returned

\* The grid that was built has at least two dimensions, and a single axis
\* has got a leading axis of size 1, as has its mask.
PaddedGrid ==
    LET g == result[1]
        n == Len(args.coords)
    IN  /\ Len(g.max_index) >= 2
        /\ n = 1 =>
               /\ g.max_index = <<1, args.coords[1].shape[1]>>
               /\ args.mask # None => g.mask[1].shape = g.max_index

\* C24: building a Cartesian grid from 1, 2 or 3 axes returns a grid of at
\* least two dimensions, a single axis (and its mask) having been given a
\* leading axis of size 1, whether or not bounds are used; any other
\* number of axes is rejected.
C24_CartesianGrid ==
    /\ (op = "create_Grid" /\ pc # "start" /\ args.cartesian) =>
           IF Len(args.coords) \in 1..3
           THEN Returned /\ PaddedGrid
           ELSE raised = "ValueError"
    /\ (op = "create_Cartesian_ESMF_grid" /\ pc # "start") =>
           (Returned /\ PaddedGrid)

\* The data axes of the field with every regridding axis that it did not
\* span inserted: those of the field when the call ended.
SpansRegriddingAxes ==
    /\ \A n \in DOMAIN args.axis_keys :
           args.axis_keys[n] \in Range(result[1].data_axes)
    /\ \A k \in Range(result[1].data_axes) :
           k \in Range(args.data_axes) \cup Range(args.axis_keys)
    /\ Len(result[1].data_axes)
           = Cardinality(Range(args.data_axes) \cup Range(args.axis_keys))

\* C25: regrid_get_axis_indices returns; the field's data then span every
\* regridding axis; the position returned for each axis key is where that
\* axis is in the data axes; the positions are pairwise distinct; and
\* order[i] is the number of positions smaller than axis_indices[i].
C25_AxisIndices ==
    (/\ op \in {"regrid_get_axis_indices", "regrid_get_axis_indices (OLD)"}
     /\ pc # "start") =>
        /\ Returned
        /\ SpansRegriddingAxes
        /\ LET r == result[1] IN
           /\ \A n \in DOMAIN args.axis_keys :
                  r.data_axes[r.axis_indices[n] + 1] = args.axis_keys[n]
           /\ \A i, j \in DOMAIN r.axis_indices :
                  r.axis_indices[i] = r.axis_indices[j] => i = j
           /\ \A i \in DOMAIN r.order :
                  r.order[i] = Cardinality({j \in DOMAIN r.axis_indices :
                                               r.axis_indices[j]
                                                   < r.axis_indices[i]})

\* The element of the field's mask that element r of the returned mask
\* should be: r's position along dimension k is the position along the
\* field's dimension dst_axes[k], and the position along every other
\* dimension is 0.
MaskOfField(r) ==
    args.f.mask[[d \in DOMAIN args.f.shape |->
                    IF d - 1 \in Range(args.dst_axes)
                    THEN r[CHOOSE k \in DOMAIN args.dst_axes :
                               args.dst_axes[k] = d - 1]
                    ELSE 0]]

\* C26: regrid_get_destination_mask returns the field's mask at index 0
\* of every non-regridding dimension, dimension k of the returned mask
\* being the field's dimension dst_axes[k].
C26_DestinationMask ==
    (/\ op \in {"regrid_get_destination_mask",
                "regrid_get_destination_mask (OLD)"}
     /\ pc # "start") =>
        /\ Returned
        /\ result[1].shape = [k \in DOMAIN args.dst_axes |->
                                 args.f.shape[args.dst_axes[k] + 1]]
        /\ \A r \in DOMAIN result[1].mask : result[1].mask[r] = MaskOfField(r)

\* The entries of axis_order that regrid_get_reordered_sections rejects:
\* a regridding axis, or an axis that is not found.
RejectedAxes ==
    {a \in Range(args.axis_order[1]) :
        \/ a \in Range(args.regrid_axes)
        \/ a \notin args.src.dimension_coordinates}

\* The positions in the data of the axis_order axes, in their priority.
LoopIndices ==
    LET spanning == SelectSeq(args.axis_order[1],
                              LAMBDA a : a \in Range(args.src.data_axes))
    IN  [k \in DOMAIN spanning |-> Index(args.src.data_axes, spanning[k])[1]]

\* Every combination of indices along the non-regridding axes.
SectionKeys ==
    {key \in [DOMAIN args.src.shape ->
                 {None} \cup {Some(i) : i \in 0..(DimSize - 1)}] :
        \A d \in DOMAIN key :
            (key[d] = None) <=> (d - 1 \in Range(args.regrid_axis_indices))}

WhereReturned ==
    /\ op = "cf_where"
    /\ Returned
    /\ pc # "start"
    /\ args.x # None \/ args.y # None

\* The array that element i of the result is said to come from: y where
\* the condition is False or masked, x elsewhere, and the input array
\* where that one is None.
SourceOfElement(i) ==
    IF args.condition.mask[i] \/ ~args.condition.data[i]
    THEN IF args.y # None THEN args.y[1] ELSE args.array
    ELSE IF args.x # None THEN args.x[1] ELSE args.array

\* Element i of the input array is masked and the mask is to be hard.
KeptMasked(i) == args.hardmask /\ args.array.mask[i]

\* C28: cf_where leaves the input array as it was and returns an array
\* in which each element comes from y where the condition is False or
\* masked and from x elsewhere, and from the input array where x or y
\* is None (elements that a hard mask keeps masked apart).
C28_WhereAssigns ==
    WhereReturned =>
        /\ result[1].input = args.array
        /\ \A i \in DOMAIN args.array.data :
              ~KeptMasked(i) =>
                  /\ result[1].array.mask[i] = SourceOfElement(i).mask[i]
                  /\ ~result[1].array.mask[i] =>
                        result[1].array.data[i] = SourceOfElement(i).data[i]

\* C29: with hardmask=True every element that is masked in the input
\* array is masked in the array that cf_where returns, and a returned
\* masked array has a hard mask; with hardmask=False an element assigned
\* from x or y takes the value and the mask of x or y, whether it was
\* masked in the input array or not.
C29_HardMask ==
    (op = "cf_where" /\ pc # "start") =>
        /\ args.hardmask =>
              /\ \A i \in DOMAIN args.array.mask :
                    args.array.mask[i] => result[1].array.mask[i]
              /\ result[1].array.isMA => result[1].array.hardmask
        /\ (~args.hardmask /\ (args.x # None \/ args.y # None)) =>
              \A i \in DOMAIN args.array.mask :
                  ~args.condition.mask[i] =>
                      /\ result[1].array.mask[i] = SourceOfElement(i).mask[i]
                      /\ ~result[1].array.mask[i] =>
                            result[1].array.data[i]
                                = SourceOfElement(i).data[i]

\* With hardmask=True, an element that was masked in the input array was
\* assigned from an unmasked element of x and is still masked.
C29_Witness ==
    /\ WhereReturned
    /\ args.hardmask
    /\ \E i \in DOMAIN args.array.mask :
          /\ args.array.mask[i]
          /\ args.x # None
          /\ ~args.x[1].mask[i]
          /\ ~args.condition.mask[i]
          /\ args.condition.data[i]
          /\ result[1].array.mask[i]
          /\ result[1].array.hardmask

\* The fields being regridded for a domain ancillary have no coordinate
\* reference, domain ancillary or cell measure.
StackStripped ==
    \A n \in DOMAIN args.stack :
        /\ args.stack[n].field.refs = <<>>
        /\ ConstructsOfType(args.stack[n].field,
                            {"domain_ancillary", "cell_measure"}) = {}

\* C30: regridding the domain ancillaries of a field terminates: the
\* field made for a domain ancillary has no coordinate reference, domain
\* ancillary or cell measure when it is regridded, no more than one such
\* field is being regridded at any time, and the step that regrids it
\* can be taken and ends the call, which returns or raises.
C30_RecursionEnds ==
    /\ [](op = "regrid_update_non_coordinates (domain ancillaries)" =>
             /\ Len(args.stack) <= 1
             /\ StackStripped
             /\ pc = "regridding" => ENABLED RegridDomainAncillaryField)
    /\ [][(/\ op = "regrid_update_non_coordinates (domain ancillaries)"
           /\ pc = "regridding") => pc' \in {"done", "raised"}]_vars

\* A field made for a domain ancillary is being regridded.
C30_Witness ==
    /\ op = "regrid_update_non_coordinates (domain ancillaries)"
    /\ pc = "regridding"
    /\ Len(args.stack) = 1
    /\ "da0" \in DOMAIN f.constructs

====
